---------------------------- MODULE Spec2Model ----------------------------
(***************************************************************************)
(* BackFS block cache engine.                                              *)
(*                                                                         *)
(* The cache directory is modelled as one record `c`: the bucket           *)
(* directories with their data / parent / next / prev entries, the list    *)
(* anchors in buckets/, the two number files, the map tree (directories,   *)
(* numbered links, mtime witness files) and the in-memory fields of the    *)
(* engine object (used_bytes, next_bucket_number, block size, max_bytes).  *)
(*                                                                         *)
(* A symbolic link is identified with the directory entry it resolves to;  *)
(* the spelling of link targets is not part of the model.                  *)
(*                                                                         *)
(* Two engines work on this layout:                                        *)
(*   - the bucket store (bucket_store.rs) and the block map (block_map.rs) *)
(*     driven by the cache front end (Cache_* definitions), checked under  *)
(*     Spec;                                                               *)
(*   - the self-contained FSCache of fscache.rs (FSCache_* definitions),   *)
(*     checked under SpecFS.                                               *)
(*                                                                         *)
(* Every action is one whole call of the engine.  `last` holds what the    *)
(* call did and returned; the Return step hands it to the caller, and the  *)
(* next call starts from there.  A behaviour follows at most MaxSteps      *)
(* calls.                                                                  *)
(***************************************************************************)
EXTENDS Integers, Sequences, FiniteSets, TLC

(***************************************************************************)
(* Bounds                                                                  *)
(***************************************************************************)
\* number of bucket directories that may ever be created
MaxBuckets == 3
\* largest backing file length
MaxFileLen == 4
\* largest mtime a backing file reaches
MaxMtime == 2
\* largest block size configured under SpecFS
MaxBlockSize == 2
\* number of engine calls a behaviour follows
MaxSteps == 4
\* number of request threads calling the engine at once
MaxThreads == 3

\* backing paths, as component sequences below the map root
Paths == { <<"f">>, <<"d", "g">> }
\* arguments of invalidate_path: the files and the directory above one
InvalidateArgs == Paths \cup { <<"d">> }

Buckets == 0 .. (MaxBuckets - 1)
\* block indices a request within the bounds can touch (B >= 1)
BlockIdx == 0 .. MaxFileLen
Entries == Paths \X BlockIdx

(***************************************************************************)
(* Option values: None is the empty tuple, Some(x) the 1-tuple.            *)
(***************************************************************************)
None == << >>
Some(x) == << x >>
IsSome(o) == o # << >>
IsNone(o) == o = << >>
Unwrap(o) == o[1]

Min(a, b) == IF a < b THEN a ELSE b

\* s[from+1 .. to], the Rust slice s[from .. to]
Slice(s, from, to) == SubSeq(s, from + 1, to)

Ok(c) == [ok |-> TRUE, err |-> "", c |-> c]
Err(c, e) == [ok |-> FALSE, err |-> e, c |-> c]

(***************************************************************************)
(* utils.rs: number files hold the decimal text of the number.             *)
(***************************************************************************)
\* a text is a sequence of characters: 0 .. 9 the digits, 11 the minus sign,
\* 10 any other character
RECURSIVE format(_)
format(n) ==
    IF n < 0 THEN << 11 >> \o format(0 - n)
    ELSE IF n < 10 THEN << n >> ELSE format(n \div 10) \o << n % 10 >>

RECURSIVE parse_digits(_, _)
parse_digits(s, acc) ==
    IF s = << >> THEN acc
    ELSE parse_digits(Tail(s), 10 * acc + Head(s))

\* string.trim().parse(): empty text or a non-digit is an error
parse(s) ==
    IF s = << >> \/ \E k \in 1 .. Len(s) : s[k] \notin 0 .. 9
    THEN [ok |-> FALSE, n |-> 0]
    ELSE [ok |-> TRUE, n |-> parse_digits(s, 0)]

\* the same for a signed number (the witness mtime is an i64)
parse_i64(s) ==
    LET negated(r) == [ok |-> r.ok, n |-> 0 - r.n]
    IN  IF s # << >> /\ Head(s) = 11 THEN negated(parse(Tail(s))) ELSE parse(s)

\* a writer that keeps the last digit only
write_number_file_last_digit(n) == Some(<< n % 10 >>)

\* write_number_file: create + truncate + write!("{}")
write_number_file(n) == Some(format(n))

\* read_number_file(path, None): absent file is Ok(None)
read_number_file(file) ==
    IF IsNone(file) THEN [ok |-> TRUE, val |-> None]
    ELSE LET r == parse_i64(Unwrap(file))
         IN  IF r.ok THEN [ok |-> TRUE, val |-> Some(r.n)]
             ELSE [ok |-> FALSE, val |-> None]

(***************************************************************************)
(* fsll.rs: the list is a pair of anchor links in buckets/ and the next /  *)
(* prev links inside the bucket directories.                               *)
(***************************************************************************)
used_list == [head_link |-> "head", tail_link |-> "tail"]
free_list == [head_link |-> "free_head", tail_link |-> "free_tail"]

set_anchor(c, name, target) == [c EXCEPT !.base[name] = target]
set_next(c, b, target) == [c EXCEPT !.next[b] = target]
set_prev(c, b, target) == [c EXCEPT !.prev[b] = target]

is_empty(c, ll) == IsNone(c.base[ll.head_link]) /\ IsNone(c.base[ll.tail_link])

get_tail(c, ll) == c.base[ll.tail_link]

get_head_tail(c, ll) ==
    IF IsNone(c.base[ll.head_link]) THEN [ok |-> FALSE, head |-> 0, tail |-> 0]
    ELSE IF IsNone(c.base[ll.tail_link]) THEN [ok |-> FALSE, head |-> 0, tail |-> 0]
    ELSE [ok |-> TRUE, head |-> Unwrap(c.base[ll.head_link]),
                       tail |-> Unwrap(c.base[ll.tail_link])]

to_head(c, ll, p) ==
    LET promote(ht, next, prev) ==
            IF ~ht.ok THEN Err(c, "Other")
            ELSE IF IsNone(prev) = (ht.head = p) THEN Err(c, "Other")
            ELSE IF IsNone(next) = (ht.tail = p) THEN Err(c, "Other")
            ELSE IF IsSome(next) /\ Unwrap(next) = p THEN Err(c, "Other")
            ELSE IF IsSome(prev) /\ Unwrap(prev) = p THEN Err(c, "Other")
            ELSE IF IsNone(prev) THEN Ok(c)
            ELSE LET c1 == set_next(c, Unwrap(prev), next)
                     c2 == IF IsSome(next) THEN set_prev(c1, Unwrap(next), prev)
                           ELSE set_anchor(c1, ll.tail_link, prev)
                     c3 == set_prev(c2, ht.head, Some(p))
                     c4 == set_next(c3, p, Some(ht.head))
                     c5 == set_prev(c4, p, None)
                     c6 == set_anchor(c5, ll.head_link, Some(p))
                 IN  Ok(c6)
    IN  promote(get_head_tail(c, ll), c.next[p], c.prev[p])

insert_as_head(c, ll, p) ==
    LET maybe_head == c.base[ll.head_link]
        maybe_tail == c.base[ll.tail_link]
    IN  IF IsSome(maybe_head) /\ IsSome(maybe_tail)
        THEN LET head == Unwrap(maybe_head)
                 c1 == set_next(c, p, Some(head))
                 c2 == set_prev(c1, head, Some(p))
             IN  Ok(set_anchor(c2, ll.head_link, Some(p)))
        ELSE IF IsNone(maybe_head) /\ IsNone(maybe_tail)
        THEN LET c1 == set_anchor(c, ll.head_link, Some(p))
                 c2 == set_anchor(c1, ll.tail_link, Some(p))
                 c3 == set_next(c2, p, None)
             IN  Ok(set_prev(c3, p, None))
        ELSE Err(c, "Other")

\* an insertion at the wrong end
insert_as_tail_at_head(c, ll, p) == insert_as_head(c, ll, p)

insert_as_tail(c, ll, p) ==
    LET maybe_head == c.base[ll.head_link]
        maybe_tail == c.base[ll.tail_link]
    IN  IF IsSome(maybe_head) /\ IsSome(maybe_tail)
        THEN LET tail == Unwrap(maybe_tail)
                 c1 == set_prev(c, p, Some(tail))
                 c2 == set_next(c1, tail, Some(p))
             IN  Ok(set_anchor(c2, ll.tail_link, Some(p)))
        ELSE IF IsNone(maybe_head) /\ IsNone(maybe_tail)
        THEN LET c1 == set_anchor(c, ll.head_link, Some(p))
                 c2 == set_anchor(c1, ll.tail_link, Some(p))
                 c3 == set_next(c2, p, None)
             IN  Ok(set_prev(c3, p, None))
        ELSE Err(c, "Other")

\* first block of disconnect: p is the head
disconnect_head(c, ll, p, ht, next) ==
    IF ht.head # p THEN Ok(c)
    ELSE IF IsNone(next)
    THEN IF ht.tail = p THEN Ok(set_anchor(c, ll.tail_link, None))
         ELSE Err(c, "Other")
    ELSE Ok(set_prev(set_anchor(c, ll.head_link, next), Unwrap(next), None))

\* second block of disconnect: p is the tail
disconnect_tail(c, ll, p, ht, prev) ==
    IF ht.tail # p THEN Ok(c)
    ELSE IF IsNone(prev)
    THEN IF ht.head = p THEN Ok(set_anchor(c, ll.head_link, None))
         ELSE Err(c, "Other")
    ELSE Ok(set_next(set_anchor(c, ll.tail_link, prev), Unwrap(prev), None))

\* a disconnect that clears the links of p and nothing else
disconnect_forgets_neighbours(c, ll, p) == Ok(set_prev(set_next(c, p, None), p, None))

disconnect(c, ll, p) ==
    LET unlinked(r2, next, prev) ==
            IF ~r2.ok THEN r2
            ELSE Ok(set_prev(set_next(IF IsSome(next) /\ IsSome(prev)
                                      THEN set_next(set_prev(r2.c, Unwrap(next), prev),
                                                    Unwrap(prev), next)
                                      ELSE r2.c,
                                      p, None),
                             p, None))
        at_tail(r1, ht, next, prev) ==
            IF ~r1.ok THEN r1
            ELSE unlinked(disconnect_tail(r1.c, ll, p, ht, prev), next, prev)
        at_head(ht, next, prev) ==
            IF ~ht.ok THEN Err(c, "Other")
            ELSE at_tail(disconnect_head(c, ll, p, ht, next), ht, next, prev)
    IN  at_head(get_head_tail(c, ll), c.next[p], c.prev[p])

\* the buckets reached from the head anchor by following next, head first
RECURSIVE walk_next(_, _, _)
walk_next(c, at, fuel) ==
    IF IsNone(at) \/ fuel = 0 THEN << >>
    ELSE << Unwrap(at) >> \o walk_next(c, c.next[Unwrap(at)], fuel - 1)

list_seq(c, ll) == walk_next(c, c.base[ll.head_link], MaxBuckets + 1)

SeqToSet(s) == { s[k] : k \in 1 .. Len(s) }

(***************************************************************************)
(* bucket_store.rs                                                         *)
(***************************************************************************)
\* "{}" of the bucket number names the directory: numbers up to the bound
bucket_in_bounds(n) == n < MaxBuckets

new_bucket(c) ==
    LET n == c.next_bucket_number
        inserted(r3) ==
            IF ~r3.ok THEN [ok |-> FALSE, err |-> r3.err, c |-> r3.c, bucket |-> n]
            ELSE [ok |-> TRUE, err |-> "", bucket |-> n,
                  c |-> [r3.c EXCEPT !.next_bucket_number = n + 1]]
    IN  IF ~bucket_in_bounds(n) THEN Err([c EXCEPT !.bound_hit = TRUE], "Bound")
        ELSE IF n \in c.bucket_dirs THEN Err(c, "EEXIST")
        ELSE inserted(insert_as_head([c EXCEPT !.bucket_dirs = @ \cup {n},
                                               !.nbn_file = write_number_file(n + 1)],
                                     used_list, n))

\* a store that never looks at the free list
get_bucket_always_new(c) == new_bucket(c)

get_bucket(c) ==
    LET free_bucket_ == Unwrap(get_tail(c, free_list))
        inserted(r2) == [ok |-> r2.ok, err |-> r2.err, c |-> r2.c, bucket |-> free_bucket_]
        disconnected(r1) ==
            IF ~r1.ok THEN [ok |-> FALSE, err |-> r1.err, c |-> r1.c, bucket |-> free_bucket_]
            ELSE inserted(insert_as_head(r1.c, used_list, free_bucket_))
    IN  IF is_empty(c, free_list) THEN new_bucket(c)
        ELSE disconnected(disconnect(c, free_list, free_bucket_))

\* a store that never asks for space to be freed
free_bytes_never_needed(c, size) == 0

free_bytes_needed_for_write(c, size) ==
    IF IsNone(c.max_bytes) \/ c.used_bytes + size <= Unwrap(c.max_bytes)
    THEN 0
    ELSE c.used_bytes + size - Unwrap(c.max_bytes)

get(c, bucket_path) ==
    LET promoted(r) ==
            IF ~r.ok THEN [ok |-> FALSE, err |-> r.err, c |-> r.c, data |-> << >>]
            ELSE IF IsNone(r.c.data[bucket_path])
            THEN [ok |-> FALSE, err |-> "ENOENT", c |-> r.c, data |-> << >>]
            ELSE [ok |-> TRUE, err |-> "", c |-> r.c, data |-> Unwrap(r.c.data[bucket_path])]
    IN  promoted(to_head(c, used_list, bucket_path))

\* free_bucket: a step fails with c.io_errno while it is the step c.io_fault
\* names and c.io_left failures are left; trylog! returns the error at once.

\* a free_bucket that forgets to lower used_bytes
free_bucket_keeps_used_bytes(c, bucket_path) ==
    LET inserted(r2) ==
            IF ~r2.ok THEN [ok |-> FALSE, err |-> r2.err, c |-> r2.c, freed |-> 0]
            ELSE [ok |-> TRUE, err |-> "", freed |-> 0,
                  c |-> [r2.c EXCEPT !.data[bucket_path] = None,
                                     !.parent[bucket_path] = None]]
        disconnected(r1) ==
            IF ~r1.ok THEN [ok |-> FALSE, err |-> r1.err, c |-> r1.c, freed |-> 0]
            ELSE inserted(insert_as_tail(r1.c, free_list, bucket_path))
    IN  disconnected(disconnect(c, used_list, bucket_path))

free_bucket(c, bucket_path) ==
    LET faulty(cc, step) == cc.io_fault = step /\ cc.io_left > 0
        failed(cc) ==
            [ok |-> FALSE, err |-> cc.io_errno, freed |-> 0,
             c |-> [cc EXCEPT !.io_left = @ - 1]]
        removed(c3, data_size) ==
            IF faulty(c3, "remove_parent") THEN failed(c3)
            ELSE IF IsNone(c3.parent[bucket_path])
            THEN [ok |-> FALSE, err |-> "ENOENT", c |-> c3, freed |-> 0]
            ELSE [ok |-> TRUE, err |-> "", freed |-> data_size,
                  c |-> [c3 EXCEPT !.parent[bucket_path] = None,
                                   !.used_bytes = @ - data_size]]
        inserted(r2) ==
            IF ~r2.ok THEN [ok |-> FALSE, err |-> r2.err, c |-> r2.c, freed |-> 0]
            ELSE IF IsSome(r2.c.data[bucket_path]) /\ faulty(r2.c, "remove_data")
            THEN failed(r2.c)
            ELSE removed([r2.c EXCEPT !.data[bucket_path] = None],
                         IF IsSome(r2.c.data[bucket_path])
                         THEN Len(Unwrap(r2.c.data[bucket_path])) ELSE 0)
        disconnected(r1) ==
            IF ~r1.ok THEN [ok |-> FALSE, err |-> r1.err, c |-> r1.c, freed |-> 0]
            ELSE IF faulty(r1.c, "insert_as_tail") THEN failed(r1.c)
            ELSE inserted(insert_as_tail(r1.c, free_list, bucket_path))
    IN  IF faulty(c, "disconnect") THEN failed(c)
        ELSE disconnected(disconnect(c, used_list, bucket_path))

NoEntry == << << >>, 0 >>

\* a deletion that takes the most recently used bucket
delete_something_takes_head(c) ==
    LET head == c.base[used_list.head_link]
        freed(r, parent) ==
            [ok |-> r.ok, err |-> r.err, c |-> r.c, parent |-> parent, freed |-> r.freed]
    IN  IF IsNone(head)
        THEN [ok |-> FALSE, err |-> "EINVAL", c |-> c, parent |-> NoEntry, freed |-> 0]
        ELSE IF IsNone(c.parent[Unwrap(head)])
        THEN [ok |-> FALSE, err |-> "EINVAL", c |-> c, parent |-> NoEntry, freed |-> 0]
        ELSE freed(free_bucket(c, Unwrap(head)), Unwrap(c.parent[Unwrap(head)]))
delete_something(c) ==
    LET tail == get_tail(c, used_list)
        freed(r, parent) ==
            [ok |-> r.ok, err |-> r.err, c |-> r.c, parent |-> parent, freed |-> r.freed]
    IN  IF IsNone(tail)
        THEN [ok |-> FALSE, err |-> "EINVAL", c |-> c, parent |-> NoEntry, freed |-> 0]
        ELSE IF IsNone(c.parent[Unwrap(tail)])
        THEN [ok |-> FALSE, err |-> "EINVAL", c |-> c, parent |-> NoEntry, freed |-> 0]
        ELSE freed(free_bucket(c, Unwrap(tail)), Unwrap(c.parent[Unwrap(tail)]))

used_bytes(c) == c.used_bytes

max_bytes(c) == c.max_bytes

\* for_each_bucket visits the numbered directories; the sum of the data
\* lengths, a missing data file counting 0
RECURSIVE sum_data(_, _)
sum_data(c, bs) ==
    IF bs = {} THEN 0
    ELSE LET b == CHOOSE x \in bs : TRUE
         IN  (IF IsSome(c.data[b]) THEN Len(Unwrap(c.data[b])) ELSE 0)
             + sum_data(c, bs \ {b})

\* a size computation that finds no data file
compute_cache_used_size_finds_no_data(c) == 0
compute_cache_used_size(c) == sum_data(c, c.bucket_dirs)

(***************************************************************************)
(* block_map.rs                                                            *)
(***************************************************************************)
map_dir == << "map" >>

map_path(path) == map_dir \o path

\* PathBuf::pop
pop(dir) == IF dir = << >> THEN << >> ELSE SubSeq(dir, 1, Len(dir) - 1)

IsPrefix(d, e) == Len(d) <= Len(e) /\ SubSeq(e, 1, Len(d)) = d

\* the directory has an entry: a sub-directory, a numbered link or a witness.
\* The cache root always holds buckets/.
dir_not_empty(c, dir) ==
    \/ dir = << >>
    \/ \E d \in c.map_dirs : d # << >> /\ d # dir /\ pop(d) = dir
    \/ \E e \in Entries : map_path(e[1]) = dir /\ IsSome(c.links[e])
    \/ \E p \in Paths : map_path(p) = dir /\ IsSome(c.mtime[p])

RECURSIVE prune_empty_directories(_, _)
prune_empty_directories(c, start) ==
    IF start \in c.map_dirs /\ dir_not_empty(c, start) THEN Ok(c)
    ELSE IF start = << >> THEN Ok(c)
    ELSE IF start \notin c.map_dirs THEN Err(c, "ENOENT")
    ELSE LET c1 == [c EXCEPT !.map_dirs = @ \ {start}]
         IN  IF pop(start) = map_dir THEN Ok(c1)
             ELSE prune_empty_directories(c1, pop(start))

\* an entry other than the witness file: a numbered link or a sub-directory
has_any_blocks(c, dir) ==
    IF dir \notin c.map_dirs THEN [ok |-> FALSE, val |-> FALSE]
    ELSE [ok |-> TRUE,
          val |-> \/ \E e \in Entries : map_path(e[1]) = dir /\ IsSome(c.links[e])
                  \/ \E d \in c.map_dirs : d # dir /\ pop(d) = dir]

check_file_mtime(c, path, mtime) ==
    LET read(r) ==
            IF ~r.ok THEN [ok |-> FALSE, val |-> "Error"]
            ELSE IF IsNone(r.val) THEN [ok |-> TRUE, val |-> "NotPresent"]
            ELSE IF Unwrap(r.val) = mtime THEN [ok |-> TRUE, val |-> "Current"]
            ELSE [ok |-> TRUE, val |-> "Stale"]
    IN  read(read_number_file(c.mtime[path]))

\* fs::create_dir_all
create_dir_all(c, dir) ==
    [c EXCEPT !.map_dirs = @ \cup { SubSeq(dir, 1, k) : k \in 1 .. Len(dir) }]

set_file_mtime(c, path, mtime) ==
    Ok([create_dir_all(c, map_path(path)) EXCEPT !.mtime[path] = write_number_file(mtime)])

get_block(c, path, block) == c.links[<< path, block >>]

get_block_path(path, block) == << path, block >>

\* makelink("", file_block, Some(bucket)): unlink, then symlink, which needs
\* the directory of the link
put_block(c, path, block, bucket_path) ==
    IF map_path(path) \notin c.map_dirs THEN Err(c, "ENOENT")
    ELSE Ok([c EXCEPT !.links[<< path, block >>] = Some(bucket_path)])

\* an unmap_block that leaves the link where it is
unmap_block_keeps_link(c, map_block_path) ==
    IF IsNone(c.links[map_block_path]) THEN Err(c, "ENOENT") ELSE Ok(c)

unmap_block(c, map_block_path) ==
    LET parent == map_path(map_block_path[1])
        checked(c1, h) ==
            prune_empty_directories(
                IF h.ok /\ h.val THEN c1 ELSE [c1 EXCEPT !.mtime[map_block_path[1]] = None],
                parent)
        removed(c1) == checked(c1, has_any_blocks(c1, parent))
    IN  IF IsNone(c.links[map_block_path]) THEN Err(c, "ENOENT")
        ELSE removed([c EXCEPT !.links[map_block_path] = None])

is_block_mapped(c, block_path) == IsSome(c.links[block_path])

\* the numbered links below map_path(path)
blocks_under_path(c, path) ==
    { e \in Entries : IsPrefix(map_path(path), map_path(e[1])) /\ IsSome(c.links[e]) }

\* the walk hands each link's bucket to the handler, here the store's
\* free_bucket; the first handler error ends the walk.  ord: the links as
\* WalkDir lists them.  A listed link that is gone when getlink reads it
\* gives Ok(None), which is the unreachable!() arm: the walk panics.
RECURSIVE for_each_block_under_path(_, _, _)
for_each_block_under_path(c, path, ord) ==
    LET handled(r) ==
            IF ~r.ok THEN Err(r.c, r.err)
            ELSE for_each_block_under_path(r.c, path, Tail(ord))
    IN  IF map_path(path) \notin c.map_dirs THEN Ok(c)
        ELSE IF ord = << >> THEN Ok(c)
        ELSE IF ~IsPrefix(map_path(path), map_path(Head(ord)[1]))
        THEN for_each_block_under_path(c, path, Tail(ord))
        ELSE IF IsNone(c.links[Head(ord)]) THEN Err(c, "panic")
        ELSE handled(free_bucket(c, Unwrap(c.links[Head(ord)])))

\* a removal that takes the directories and the witnesses but not the links
remove_dir_all_keeps_links(c, dir) ==
    [c EXCEPT !.map_dirs = { d \in @ : ~IsPrefix(dir, d) },
              !.mtime = [p \in Paths |->
                            IF IsPrefix(dir, map_path(p)) THEN None ELSE @[p]]]

\* fs::remove_dir_all
remove_dir_all(c, dir) ==
    [c EXCEPT !.map_dirs = { d \in @ : ~IsPrefix(dir, d) },
              !.links = [e \in Entries |->
                            IF IsPrefix(dir, map_path(e[1])) THEN None ELSE @[e]],
              !.mtime = [p \in Paths |->
                            IF IsPrefix(dir, map_path(p)) THEN None ELSE @[p]]]

invalidate_path(c, path, ord) ==
    LET walked(r) ==
            IF ~r.ok THEN r
            ELSE IF map_path(path) \notin r.c.map_dirs THEN Err(r.c, "ENOENT")
            ELSE prune_empty_directories(remove_dir_all(r.c, map_path(path)),
                                         pop(map_path(path)))
    IN  walked(for_each_block_under_path(c, path, ord))

(***************************************************************************)
(* bucket_store.rs, put.  The delete handler is the closure the cache      *)
(* front end passes in: it unmaps the evicted bucket's parent entry.       *)
(***************************************************************************)
\* between delete_something and the delete handler: the map entries whose
\* bucket is on the free list, each with that bucket
freed_targets(c) ==
    { << e, Unwrap(c.links[e]) >> :
        e \in { x \in Entries : /\ IsSome(c.links[x])
                                /\ Unwrap(c.links[x]) \in SeqToSet(list_seq(c, free_list)) } }

delete_handler(c, map_path_) == unmap_block(c, map_path_)

\* the budget loop at the head of put
RECURSIVE put_free_space(_, _, _, _)
put_free_space(c, size, evicted, exposed) ==
    LET handled(h, ev, ex) ==
            IF ~h.ok
            THEN [ok |-> FALSE, err |-> h.err, c |-> h.c, evicted |-> ev, exposed |-> ex]
            ELSE put_free_space(h.c, size, ev, ex)
        deleted(d) ==
            IF ~d.ok
            THEN [ok |-> FALSE, err |-> d.err, c |-> d.c, evicted |-> evicted,
                  exposed |-> exposed]
            ELSE handled(delete_handler(d.c, d.parent), evicted \o << d.parent >>,
                         exposed \o << freed_targets(d.c) >>)
    IN  IF free_bytes_needed_for_write(c, size) > 0 THEN deleted(delete_something(c))
        ELSE [ok |-> TRUE, err |-> "", c |-> c, evicted |-> evicted, exposed |-> exposed]

\* the steps of put that retry_enospc wraps, in the order put takes them
PutSteps == << "get_bucket", "parent", "open", "write" >>

\* put after the budget loop.  A step fails with c.io_errno while it is the
\* step c.io_fault names and c.io_left failures are left.  On ENOSPC the
\* used-list tail is deleted, the delete handler is told, and the step is
\* tried again; any other error is returned.  taken: the bucket get_bucket
\* gave; retry_evicted: the buckets the retries deleted, the first
\* taken_after of them before the bucket was taken.  A write after the
\* data file was removed goes to the open file that has no name any more.
RECURSIVE put_steps(_, _, _, _, _, _, _)
put_steps(c, step, taken, parent, data, retry_evicted, taken_after) ==
    LET done(cc, ok_, err_) ==
            [ok |-> ok_, err |-> err_, c |-> cc, taken |-> taken,
             retry_evicted |-> retry_evicted, taken_after |-> taken_after]
        handled(h, victim) ==
            IF ~h.ok
            THEN [done(h.c, FALSE, h.err)
                      EXCEPT !.retry_evicted = @ \o << Unwrap(victim) >>]
            ELSE put_steps(h.c, step, taken, parent, data,
                           retry_evicted \o << Unwrap(victim) >>, taken_after)
        deleted(d, victim) ==
            IF ~d.ok THEN done(d.c, FALSE, d.err)
            ELSE handled(delete_handler(d.c, d.parent), victim)
        failed(c1) ==
            IF c1.io_errno = "ENOSPC"
            THEN deleted(delete_something(c1), get_tail(c1, used_list))
            ELSE done(c1, FALSE, c1.io_errno)
        got(g) ==
            IF ~g.ok THEN done(g.c, FALSE, g.err)
            ELSE put_steps(g.c, "parent", Some(g.bucket), parent, data, retry_evicted,
                           Len(retry_evicted))
    IN  IF c.io_fault = step /\ c.io_left > 0
        THEN failed([c EXCEPT !.io_left = @ - 1])
        ELSE IF step = "get_bucket" THEN got(get_bucket(c))
        ELSE IF step = "parent"
        THEN put_steps([c EXCEPT !.parent[Unwrap(taken)] = Some(parent)],
                       "open", taken, parent, data, retry_evicted, taken_after)
        ELSE IF step = "open"
        THEN put_steps([c EXCEPT !.data[Unwrap(taken)] = Some(<< >>)],
                       "write", taken, parent, data, retry_evicted, taken_after)
        ELSE done([c EXCEPT !.data[Unwrap(taken)] = IF IsSome(@) THEN Some(data) ELSE @,
                            !.used_bytes = @ + Len(data)],
                  TRUE, "")

put(c, parent, data) ==
    LET written(r2, r1) ==
            [ok |-> r2.ok, err |-> r2.err, c |-> r2.c,
             bucket |-> IF r2.ok THEN Unwrap(r2.taken) ELSE 0,
             evicted |-> r1.evicted, exposed |-> r1.exposed,
             taken |-> r2.taken, retry_evicted |-> r2.retry_evicted,
             taken_after |-> r2.taken_after]
        fits(r1) ==
            IF ~r1.ok
            THEN [ok |-> FALSE, err |-> r1.err, c |-> r1.c, bucket |-> 0,
                  evicted |-> r1.evicted, exposed |-> r1.exposed,
                  taken |-> None, retry_evicted |-> << >>, taken_after |-> 0]
            ELSE written(put_steps(r1.c, "get_bucket", None, parent, data, << >>, 0), r1)
    IN  fits(put_free_space(c, Len(data), << >>, << >>))

(***************************************************************************)
(* bucket_store.rs, new and init: a new engine object over the directory   *)
(***************************************************************************)
\* a reader that answers the default whatever the file holds
read_number_file_takes_default(file, default) ==
    [ok |-> TRUE, val |-> default, file |-> Some(format(default))]

\* read_number_file(path, Some(default)): an absent file is created with the
\* text of the default
read_number_file_default(file, default) ==
    LET parsed(r) == [ok |-> r.ok, val |-> r.n, file |-> file]
    IN  IF IsNone(file)
        THEN [ok |-> TRUE, val |-> default, file |-> Some(format(default))]
        ELSE parsed(parse(Unwrap(file)))

new(c, block_size, max) ==
    [c EXCEPT !.used_bytes = 0, !.max_bytes = max, !.bucket_size = block_size,
              !.next_bucket_number = 0]

\* the over-size loop of init
RECURSIVE init_free_space(_, _, _)
init_free_space(c, evicted, exposed) ==
    LET handled(h, ev, ex) ==
            IF ~h.ok
            THEN [ok |-> FALSE, err |-> h.err, c |-> h.c, evicted |-> ev, exposed |-> ex]
            ELSE init_free_space(h.c, ev, ex)
        deleted(d) ==
            IF ~d.ok
            THEN [ok |-> FALSE, err |-> d.err, c |-> d.c, evicted |-> evicted,
                  exposed |-> exposed]
            ELSE handled(delete_handler(d.c, d.parent), evicted \o << d.parent >>,
                         exposed \o << freed_targets(d.c) >>)
    IN  IF IsSome(c.max_bytes) /\ c.used_bytes > Unwrap(c.max_bytes)
        THEN deleted(delete_something(c))
        ELSE [ok |-> TRUE, err |-> "", c |-> c, evicted |-> evicted, exposed |-> exposed]

\* an init that measures the cache and frees nothing
init_keeps_every_bucket(c) ==
    [ok |-> TRUE, err |-> "", c |-> [c EXCEPT !.used_bytes = compute_cache_used_size(c)],
     evicted |-> << >>, exposed |-> << >>]
init(c) ==
    LET failed(cc, e) ==
            [ok |-> FALSE, err |-> e, c |-> cc, evicted |-> << >>, exposed |-> << >>]
        sized(c1, s) ==
            IF ~s.ok THEN failed(c1, "Other")
            ELSE IF s.val # c1.bucket_size
            THEN failed(c1, "Other")
            ELSE init_free_space(
                     [c1 EXCEPT !.bucket_size_file = s.file,
                                !.used_bytes = compute_cache_used_size(c1)],
                     << >>, << >>)
        numbered(n) ==
            IF ~n.ok THEN failed(c, "Other")
            ELSE sized([c EXCEPT !.nbn_file = n.file, !.next_bucket_number = n.val],
                       read_number_file_default(c.bucket_size_file, c.bucket_size))
    IN  numbered(read_number_file_default(c.nbn_file, 0))

(***************************************************************************)
(* fscache.rs, fetch: the per-block trimming of the result                 *)
(***************************************************************************)
\* file.seek(block * B); file.read(buf[..B])
read_block(D, B, block) ==
    Slice(D, Min(block * B, Len(D)), Min((block + 1) * B, Len(D)))

\* ctl: "next" goes on with the next block, "break" ends the loop with
\* result, "return" returns result at once
\* a trimming that takes every block whole
fetch_splice_whole_blocks(B, offset, size, block, first_block, last_block, block_data, result) ==
    [ctl |-> IF Len(block_data) < B THEN "break" ELSE "next",
     result |-> result \o block_data]

fetch_splice(B, offset, size, block, first_block, last_block, block_data, result) ==
    LET nread == Len(block_data)
        block_start == IF block = first_block THEN offset - block * B ELSE 0
        block_end0 == IF block = last_block THEN (offset + size) - (block * B) ELSE B
        block_end == IF nread < block_end0 THEN nread ELSE block_end0
    IN  IF block_end0 = 0 THEN [ctl |-> "next", result |-> result]
        ELSE IF block_start > block_end THEN [ctl |-> "return", result |-> << >>]
        ELSE IF block_start # 0 \/ block_end # nread
        THEN [ctl |-> IF nread < B THEN "break" ELSE "next",
              result |-> result \o Slice(block_data, block_start, block_end)]
        ELSE IF block = first_block /\ block = last_block
        THEN [ctl |-> "return", result |-> block_data]
        ELSE [ctl |-> IF nread < B THEN "break" ELSE "next",
              result |-> result \o block_data]

(***************************************************************************)
(* The cache front end over map and store: fetch, invalidate_path,         *)
(* free_block.                                                             *)
(***************************************************************************)
\* the used list, head first, with each bucket's parent and data length
RECURSIVE lru_entries(_, _)
lru_entries(c, l) ==
    IF l = << >> THEN << >>
    ELSE << [bucket |-> Head(l), parent |-> c.parent[Head(l)],
             size |-> IF IsSome(c.data[Head(l)]) THEN Len(Unwrap(c.data[Head(l)]))
                      ELSE 0] >>
         \o lru_entries(c, Tail(l))

lru_of(c) == lru_entries(c, list_seq(c, used_list))

RECURSIVE sum_sizes(_)
sum_sizes(l) == IF l = << >> THEN 0 ELSE Head(l).size + sum_sizes(Tail(l))

held_bytes(c) == sum_sizes(lru_of(c))

\* the map as the set of its (entry, bucket) links
mapped_links(c) == { << e, Unwrap(c.links[e]) >> : e \in { x \in Entries : IsSome(c.links[x]) } }

\* store.put with the map-entry path as parent, then map.put_block; a
\* failure of either is logged and the block is still served
Cache_write_block_to_cache(c, path, block, data) ==
    LET logged(r, m) ==
            [c |-> m.c,
             log |-> [entry |-> << path, block >>, data |-> data, ok |-> r.ok,
                      bucket |-> IF r.ok THEN r.bucket ELSE 0,
                      evicted |-> r.evicted, exposed |-> r.exposed, mapped |-> m.ok,
                      lru |-> lru_of(c), used_before |-> c.used_bytes,
                      used_after |-> r.c.used_bytes, held_after |-> held_bytes(r.c),
                      head_after |-> r.c.base["head"],
                      taken |-> r.taken, retry_evicted |-> r.retry_evicted,
                      taken_after |-> r.taken_after,
                      links_before |-> mapped_links(c),
                      links_after |-> mapped_links(r.c)]]
        stored(r) ==
            logged(r, IF r.ok THEN put_block(r.c, path, block, r.bucket)
                      ELSE Err(r.c, r.err))
    IN  stored(put(c, get_block_path(path, block), data))

Cache_invalidate_path(c, path, ord) == invalidate_path(c, path, ord)

\* look the bucket up, free it, unmap the block; nothing to do when the
\* block is not mapped
Cache_free_block(c, path, block) ==
    LET unmapped(u, freed) ==
            [ok |-> u.ok, err |-> u.err, c |-> u.c, freed |-> Some(freed)]
        freed_bucket(r) ==
            IF ~r.ok THEN [ok |-> FALSE, err |-> r.err, c |-> r.c, freed |-> None]
            ELSE unmapped(unmap_block(r.c, get_block_path(path, block)), r.freed)
        looked_up(b) ==
            IF IsNone(b) THEN [ok |-> TRUE, err |-> "", c |-> c, freed |-> None]
            ELSE freed_bucket(free_bucket(c, Unwrap(b)))
    IN  looked_up(get_block(c, path, block))

RECURSIVE Cache_fetch_blocks(_, _, _, _, _, _, _, _, _, _)
Cache_fetch_blocks(c, path, offset, size, D, block, last_block, result, puts, gets) ==
    LET B == c.bucket_size
        first_block == offset \div B
        spliced(sp, st) ==
            IF sp.ctl = "next"
            THEN Cache_fetch_blocks(st.c, path, offset, size, D, block + 1, last_block,
                                    sp.result, st.puts, st.gets)
            ELSE [ok |-> TRUE, c |-> st.c, bytes |-> sp.result, puts |-> st.puts,
                  gets |-> st.gets]
        have(st) ==
            IF ~st.ok
            THEN [ok |-> FALSE, c |-> st.c, bytes |-> << >>, puts |-> st.puts,
                  gets |-> st.gets]
            ELSE spliced(fetch_splice(B, offset, size, block, first_block, last_block,
                                      st.data, result),
                         st)
        filled(w, buf) ==
            [ok |-> TRUE, c |-> w.c, data |-> buf, puts |-> puts \o << w.log >>,
             gets |-> gets]
        miss(buf) ==
            IF buf # << >>
            THEN filled(Cache_write_block_to_cache(c, path, block, buf), buf)
            ELSE [ok |-> TRUE, c |-> c, data |-> buf, puts |-> puts, gets |-> gets]
        hit(g, bucket) ==
            [ok |-> g.ok, c |-> g.c, data |-> g.data, puts |-> puts,
             gets |-> gets \o << [entry |-> << path, block >>, bucket |-> bucket,
                                  ok |-> g.ok, data |-> g.data,
                                  stored |-> c.data[bucket],
                                  head_after |-> g.c.base["head"]] >>]
        looked_up(mapped) ==
            have(IF IsSome(mapped) THEN hit(get(c, Unwrap(mapped)), Unwrap(mapped))
                 ELSE miss(read_block(D, B, block)))
    IN  IF block > last_block
        THEN [ok |-> TRUE, c |-> c, bytes |-> result, puts |-> puts, gets |-> gets]
        ELSE looked_up(get_block(c, path, block))

Cache_fetch(c, path, offset, size, D, mtime, ord) ==
    LET B == c.bucket_size
        fetched(f, fresh) ==
            [ok |-> f.ok, c |-> f.c, bytes |-> f.bytes, puts |-> f.puts,
             gets |-> f.gets, fresh |-> fresh.val]
        witnessed(r1, r2, fresh) ==
            IF ~fresh.ok \/ ~r1.ok \/ ~r2.ok
            THEN [ok |-> FALSE, c |-> r1.c, bytes |-> << >>, puts |-> << >>,
                  gets |-> << >>, fresh |-> fresh.val]
            ELSE fetched(Cache_fetch_blocks(r2.c, path, offset, size, D, offset \div B,
                                            (offset + size - 1) \div B,
                                            << >>, << >>, << >>),
                         fresh)
        invalidated(r1, fresh) ==
            witnessed(r1,
                      IF fresh.val # "Current" THEN set_file_mtime(r1.c, path, mtime)
                      ELSE r1,
                      fresh)
        checked(fresh) ==
            invalidated(IF fresh.val = "Stale" THEN Cache_invalidate_path(c, path, ord)
                        ELSE Ok(c),
                        fresh)
    IN  checked(check_file_mtime(c, path, mtime))

(***************************************************************************)
(* fscache.rs: the single-object engine.  max_bytes = 0 means no budget.   *)
(* A panic (an unwrap of an error) or a loop that never ends is an outcome *)
(* of the operation, with the directory as it was at that point.           *)
(***************************************************************************)
FSCache_free_bytes_needed_for_write(c, size) ==
    IF c.max_bytes = 0 \/ c.used_bytes + size <= c.max_bytes
    THEN 0
    ELSE c.used_bytes + size - c.max_bytes

cached_block(c, path, block) ==
    LET promoted(r, bucket_path) ==
            IF ~r.ok THEN [c |-> r.c, data |-> None, bucket |-> bucket_path]
            ELSE [c |-> r.c, data |-> r.c.data[Unwrap(bucket_path)],
                  bucket |-> bucket_path]
        looked_up(bucket_path) ==
            IF IsNone(bucket_path) THEN [c |-> c, data |-> None, bucket |-> None]
            ELSE promoted(to_head(c, used_list, Unwrap(bucket_path)), bucket_path)
    IN  looked_up(c.links[<< path, block >>])

cached_mtime(c, path) ==
    LET read(r) == IF r.ok THEN r.val ELSE None
    IN  read(read_number_file(c.mtime[path]))

write_mtime(c, path, mtime) ==
    IF map_path(path) \notin c.map_dirs THEN Err(c, "ENOENT")
    ELSE Ok([c EXCEPT !.mtime[path] = write_number_file(mtime)])

FSCache_new_bucket(c) ==
    LET n == c.next_bucket_number
        inserted(r4) == [ok |-> r4.ok, err |-> r4.err, c |-> r4.c, bucket |-> n]
    IN  IF ~bucket_in_bounds(n) THEN Err([c EXCEPT !.bound_hit = TRUE], "Bound")
        ELSE IF n \in c.bucket_dirs THEN Err(c, "EEXIST")
        ELSE inserted(insert_as_head([c EXCEPT !.bucket_dirs = @ \cup {n},
                                               !.next_bucket_number = n + 1,
                                               !.nbn_file = write_number_file(n + 1)],
                                     used_list, n))

FSCache_get_bucket(c) ==
    LET free_bucket_ == Unwrap(get_tail(c, free_list))
        inserted(r2) == [ok |-> r2.ok, err |-> r2.err, c |-> r2.c, bucket |-> free_bucket_]
        disconnected(r1) ==
            IF ~r1.ok THEN [ok |-> FALSE, err |-> r1.err, c |-> r1.c, bucket |-> free_bucket_]
            ELSE inserted(insert_as_head(r1.c, used_list, free_bucket_))
    IN  IF is_empty(c, free_list) THEN FSCache_new_bucket(c)
        ELSE disconnected(disconnect(c, free_list, free_bucket_))

\* from the directory of `path` upwards, remove_dir until map_dir, a
\* non-empty directory or an error
RECURSIVE trim_empty_directories(_, _)
trim_empty_directories(c, path) ==
    IF path = << >> THEN c
    ELSE LET parent_path == pop(path)
         IN  IF parent_path = map_dir THEN c
             ELSE IF parent_path \notin c.map_dirs \/ dir_not_empty(c, parent_path) THEN c
             ELSE trim_empty_directories([c EXCEPT !.map_dirs = @ \ {parent_path}],
                                         parent_path)

\* the location of a map entry below the cache directory
entry_path(e) == map_path(e[1]) \o << e[2] >>

FSCache_free_bucket(c, path) ==
    LET removed(c4) ==
            IF IsNone(c4.data[path]) THEN Err(c4, "ENOENT")
            ELSE Ok([c4 EXCEPT !.data[path] = None,
                               !.used_bytes = @ - Len(Unwrap(c4.data[path]))])
        unlinked(c2, parent) ==
            removed([(IF IsSome(parent)
                      THEN trim_empty_directories(
                               [c2 EXCEPT !.links[Unwrap(parent)] = None],
                               entry_path(Unwrap(parent)))
                      ELSE c2)
                     EXCEPT !.parent[path] = None])
        inserted(r2) ==
            IF ~r2.ok THEN Err(r2.c, r2.err) ELSE unlinked(r2.c, r2.c.parent[path])
        disconnected(r1) ==
            IF ~r1.ok THEN Err(r1.c, r1.err)
            ELSE inserted(insert_as_tail(r1.c, free_list, path))
    IN  disconnected(disconnect(c, used_list, path))

\* freed is FALSE when there was no bucket to free
free_last_used_bucket(c) ==
    LET freed(r) == [ok |-> r.ok, err |-> r.err, c |-> r.c, freed |-> TRUE]
    IN  IF IsNone(get_tail(c, used_list))
        THEN [ok |-> TRUE, err |-> "", c |-> c, freed |-> FALSE]
        ELSE freed(FSCache_free_bucket(c, Unwrap(get_tail(c, used_list))))

\* a walk entry for the mtime file of a path
mtime_entry(p) == << p, -1 >>

\* what WalkDir finds below map_path(path): links and mtime files
walk_entries(c, path) ==
    blocks_under_path(c, path)
    \cup { mtime_entry(p) : p \in { q \in Paths : /\ IsPrefix(map_path(path), map_path(q))
                                                  /\ IsSome(c.mtime[q]) } }

RECURSIVE invalidate_walk(_, _)
invalidate_walk(c, ord) ==
    LET freed(r) ==
            IF ~r.ok THEN [outcome |-> "panic", c |-> r.c]
            ELSE invalidate_walk(r.c, Tail(ord))
        visit(e) ==
            IF e[2] = -1
            THEN IF IsNone(c.mtime[e[1]]) THEN [outcome |-> "panic", c |-> c]
                 ELSE freed(Ok([c EXCEPT !.mtime[e[1]] = None]))
            ELSE IF IsNone(c.links[e]) THEN [outcome |-> "panic", c |-> c]
            ELSE freed(FSCache_free_bucket(c, Unwrap(c.links[e])))
    IN  IF ord = << >> THEN [outcome |-> "ok", c |-> c]
        ELSE visit(Head(ord))

invalidate_path_internal(c, path, remove_directories, ord) ==
    LET walked(w) ==
            IF w.outcome # "ok" \/ ~remove_directories THEN w
            ELSE IF map_path(path) \notin w.c.map_dirs
            THEN [outcome |-> "panic", c |-> w.c]
            ELSE [outcome |-> "ok",
                  c |-> trim_empty_directories(remove_dir_all(w.c, map_path(path)),
                                               map_path(path))]
    IN  IF map_path(path) \notin c.map_dirs THEN [outcome |-> "ok", c |-> c]
        ELSE walked(invalidate_walk(c, ord))

FSCache_invalidate_path(c, path, ord) == invalidate_path_internal(c, path, TRUE, ord)

invalidate_path_keep_directories(c, path, ord) ==
    invalidate_path_internal(c, path, FALSE, ord)

\* the budget loop of write_block_to_cache
RECURSIVE free_space_loop(_, _, _)
free_space_loop(c, size, evicted) ==
    LET freed(r, tail) ==
            IF ~r.ok THEN [outcome |-> "err", c |-> r.c, evicted |-> evicted]
            ELSE IF ~r.freed THEN [outcome |-> "hang", c |-> r.c, evicted |-> evicted]
            ELSE free_space_loop(r.c, size, evicted \o << Unwrap(tail) >>)
    IN  IF FSCache_free_bytes_needed_for_write(c, size) > 0
        THEN freed(free_last_used_bucket(c), get_tail(c, used_list))
        ELSE [outcome |-> "ok", c |-> c, evicted |-> evicted]

\* OpenOptions write + create, no truncate: bytes beyond the write stay
overwrite(old, data) ==
    IF IsSome(old) /\ Len(Unwrap(old)) > Len(data)
    THEN data \o SubSeq(Unwrap(old), Len(data) + 1, Len(Unwrap(old)))
    ELSE data

put_log(path, block, data, ok, bucket, evicted) ==
    [entry |-> << path, block >>, data |-> data, ok |-> ok, bucket |-> bucket,
     evicted |-> evicted, mapped |-> ok]

\* the file-system calls of write_block_to_cache that c.io_fault can make
\* fail: the write of the mtime file, the creation of the bucket, the open
\* of the data file, the write into it (all but the last byte are written),
\* the link from the map to the bucket, the parent link of the bucket
IoFaults == { "witness", "bucket", "data_open", "data_write", "map_link", "parent_link" }

\* outcome "overflow": used_bytes -= data_size with data_size above the
\* counter; a panic where overflow is checked, a wrapped counter elsewhere
write_block_to_cache(c, path, block, data, mtime, ord) ==
    LET failed(cc, ev) ==
            [outcome |-> "ok", c |-> cc, log |-> put_log(path, block, data, FALSE, 0, ev)]
        unlinked(r, ev) ==
            [outcome |-> IF ~r.ok THEN "panic"
                         ELSE IF r.c.used_bytes < 0 THEN "overflow" ELSE "ok",
             c |-> r.c,
             log |-> put_log(path, block, data, FALSE, 0, ev)]
        written(c5, bucket_path, ev) ==
            IF c5.io_fault \in { "data_open", "data_write", "map_link" }
               \/ map_path(path) \notin c5.map_dirs
            THEN unlinked(FSCache_free_bucket(c5, bucket_path), ev)
            ELSE IF c5.io_fault = "parent_link"
            THEN unlinked(FSCache_free_bucket(
                              [c5 EXCEPT !.links[<< path, block >>] = Some(bucket_path)],
                              bucket_path),
                          ev)
            ELSE [outcome |-> "ok",
                  c |-> [c5 EXCEPT !.links[<< path, block >>] = Some(bucket_path),
                                   !.parent[bucket_path] = Some(<< path, block >>),
                                   !.used_bytes = @ + Len(data)],
                  log |-> put_log(path, block, data, TRUE, bucket_path, ev)]
        got_bucket(g, ev) ==
            IF ~g.ok THEN failed(g.c, ev)
            ELSE written(IF g.c.io_fault = "data_open" THEN g.c
                         ELSE IF g.c.io_fault = "data_write"
                         THEN [g.c EXCEPT !.data[g.bucket] =
                                   Some(overwrite(@, SubSeq(data, 1, Len(data) - 1)))]
                         ELSE [g.c EXCEPT !.data[g.bucket] = Some(overwrite(@, data))],
                         g.bucket, ev)
        has_space(f) ==
            IF f.outcome = "hang"
            THEN [outcome |-> "hang", c |-> f.c,
                  log |-> put_log(path, block, data, FALSE, 0, f.evicted)]
            ELSE IF f.outcome = "err" THEN failed(f.c, f.evicted)
            ELSE got_bucket(IF f.c.io_fault = "bucket" THEN Err(f.c, "EIO")
                            ELSE FSCache_get_bucket(f.c),
                            f.evicted)
        witnessed(m1) ==
            IF ~m1.ok THEN failed(m1.c, << >>)
            ELSE has_space(free_space_loop(m1.c, Len(data), << >>))
        prepared(i1, cm) ==
            IF i1.outcome # "ok"
            THEN [outcome |-> i1.outcome, c |-> i1.c,
                  log |-> put_log(path, block, data, FALSE, 0, << >>)]
            ELSE witnessed(IF cm # Some(mtime) /\ i1.c.io_fault = "witness"
                           THEN Err(i1.c, "EIO")
                           ELSE IF cm # Some(mtime) THEN write_mtime(i1.c, path, mtime)
                           ELSE Ok(i1.c))
        checked(cm) ==
            prepared(IF cm # Some(mtime) /\ IsSome(cm)
                     THEN invalidate_path_keep_directories(c, path, ord)
                     ELSE IF cm # Some(mtime)
                     THEN [outcome |-> "ok", c |-> create_dir_all(c, map_path(path))]
                     ELSE [outcome |-> "ok", c |-> c],
                     cm)
    IN  checked(cached_mtime(c, path))

RECURSIVE FSCache_fetch_blocks(_, _, _, _, _, _, _, _, _, _, _)
FSCache_fetch_blocks(c, path, offset, size, D, mtime, block, last_block, result, puts, gets) ==
    LET B == c.bucket_size
        first_block == offset \div B
        spliced(sp, c1, puts1, gets1) ==
            IF sp.ctl = "next"
            THEN FSCache_fetch_blocks(c1, path, offset, size, D, mtime, block + 1,
                                      last_block, sp.result, puts1, gets1)
            ELSE [outcome |-> "ok", c |-> c1, bytes |-> sp.result, puts |-> puts1,
                  gets |-> gets1]
        have(w, block_data, puts1, gets1) ==
            IF w.outcome # "ok"
            THEN [outcome |-> w.outcome, c |-> w.c, bytes |-> << >>, puts |-> puts1,
                  gets |-> gets1]
            ELSE spliced(fetch_splice(B, offset, size, block, first_block, last_block,
                                      block_data, result),
                         w.c, puts1, gets1)
        written(w, cb, buf, gets1) ==
            have(w, IF IsSome(cb.data) THEN Unwrap(cb.data) ELSE buf,
                 IF IsSome(cb.data) THEN puts ELSE puts \o << w.log >>, gets1)
        looked_up(cb, buf) ==
            written(IF IsSome(cb.data) THEN [outcome |-> "ok", c |-> cb.c, log |-> << >>]
                    ELSE write_block_to_cache(cb.c, path, block, buf, mtime, << >>),
                    cb, buf,
                    IF IsSome(cb.bucket)
                    THEN gets \o << [entry |-> << path, block >>,
                                     bucket |-> Unwrap(cb.bucket),
                                     ok |-> IsSome(cb.data),
                                     data |-> IF IsSome(cb.data) THEN Unwrap(cb.data)
                                              ELSE << >>,
                                     stored |-> c.data[Unwrap(cb.bucket)],
                                     head_after |-> cb.c.base["head"]] >>
                    ELSE gets)
    IN  IF block > last_block
        THEN [outcome |-> "ok", c |-> c, bytes |-> result, puts |-> puts, gets |-> gets]
        ELSE looked_up(cached_block(c, path, block), read_block(D, B, block))

\* offset, size and the block numbers are u64.  offset + size - 1 overflows
\* when both are 0: a build with overflow checks panics there; one without
\* wraps to 2^64 - 1, and last_block + 1 wraps to 0 when the block size is 1,
\* which makes the block range empty.  The loop ends at the first short block,
\* so a block past the end of every file stands for (2^64 - 1) / block_size.
FSCache_fetch(c, path, offset, size, D, mtime, ord) ==
    LET B == c.bucket_size
        last_block == IF offset + size >= 1 THEN (offset + size - 1) \div B
                      ELSE IF B = 1 THEN offset \div B - 1
                      ELSE Len(D) + 1
        fresh(cm) == IF cm = Some(mtime) THEN "Current"
                     ELSE IF IsSome(cm) THEN "Stale" ELSE "NotPresent"
        fetched(f, fv) ==
            [outcome |-> f.outcome, c |-> f.c, bytes |-> f.bytes, puts |-> f.puts,
             gets |-> f.gets, fresh |-> fv]
        invalidated(i1, fv) ==
            IF i1.outcome # "ok"
            THEN [outcome |-> i1.outcome, c |-> i1.c, bytes |-> << >>, puts |-> << >>,
                  gets |-> << >>, fresh |-> fv]
            ELSE IF offset + size = 0 /\ i1.c.overflow_checks
            THEN [outcome |-> "panic", c |-> i1.c, bytes |-> << >>, puts |-> << >>,
                  gets |-> << >>, fresh |-> fv]
            ELSE fetched(FSCache_fetch_blocks(i1.c, path, offset, size, D, mtime,
                                              offset \div B, last_block,
                                              << >>, << >>, << >>),
                         fv)
        checked(cm) ==
            invalidated(IF cm # Some(mtime)
                        THEN invalidate_path_keep_directories(c, path, ord)
                        ELSE [outcome |-> "ok", c |-> c],
                        fresh(cm))
    IN  checked(cached_mtime(c, path))

\* the parent link of the bucket is there and the map entry it names is
\* missing or targets another bucket
is_bucket_orphaned(c, path) ==
    IF IsNone(c.parent[path]) THEN FALSE
    ELSE c.links[Unwrap(c.parent[path])] # Some(path)

\* ord: the order in which read_dir lists the bucket directories; an error
\* of free_bucket is logged and the listing goes on
RECURSIVE free_orphaned_buckets(_, _)
free_orphaned_buckets(c, ord) ==
    LET listed(c1) == free_orphaned_buckets(c1, Tail(ord))
    IN  IF ord = << >> THEN c
        ELSE listed(IF is_bucket_orphaned(c, Head(ord))
                    THEN FSCache_free_bucket(c, Head(ord)).c
                    ELSE c)

(***************************************************************************)
(* State                                                                   *)
(***************************************************************************)
VARIABLES
    c,          \* the cache directory and the engine object's fields
    backing,    \* backing[p]: mtime and length of the backing file p
    last,       \* the last completed operation and what it returned
    lastput,    \* lastput[e]: the bytes most recently put for map entry e
    steps,      \* operations completed so far
    pc,         \* pc[t]: the operation thread t is in and its place in it
    holder      \* holder[l]: the thread holding lock l, if any

vars == << c, backing, last, lastput, steps, pc, holder >>

\* the request threads of the adapter and the two locks of the engine
Threads == 1 .. MaxThreads
Locks == { "map", "store" }
Idle == [op |-> "idle", at |-> 0]
NoThreads == pc = [t \in Threads |-> Idle] /\ holder = [l \in Locks |-> None]

\* an operation starts when the caller has taken the previous result; at
\* most MaxSteps operations are followed
Step ==
    /\ last.op = "none" /\ steps < MaxSteps /\ steps' = steps + 1
    /\ UNCHANGED << pc, holder >>

\* the bytes of backing file p at mtime m: every byte names its file,
\* version and position
FileData(p, m, len) == [k \in 1 .. len |-> << p, m, k >>]

Content(p) == FileData(p, backing[p].mtime, backing[p].len)

\* every order in which a walk can come upon the members of S
RECURSIVE Orders(_)
Orders(S) ==
    IF S = {} THEN { << >> }
    ELSE UNION { { << x >> \o o : o \in Orders(S \ {x}) } : x \in S }

\* the cache directory after init on an empty directory
NewCache(B, max) ==
    [ base |-> [n \in {"head", "tail", "free_head", "free_tail"} |-> None],
      next |-> [b \in Buckets |-> None],
      prev |-> [b \in Buckets |-> None],
      bucket_dirs |-> {},
      data |-> [b \in Buckets |-> None],
      parent |-> [b \in Buckets |-> None],
      nbn_file |-> write_number_file(0),
      bucket_size_file |-> write_number_file(B),
      used_bytes |-> 0,
      next_bucket_number |-> 0,
      bucket_size |-> B,
      max_bytes |-> max,
      map_dirs |-> { map_dir },
      links |-> [e \in Entries |-> None],
      mtime |-> [p \in Paths |-> None],
      bound_hit |-> FALSE,
      io_fault |-> "none",
      io_errno |-> "none",
      io_left |-> 0,
      overflow_checks |-> TRUE ]

NoOp ==
    [ op |-> "none", path |-> << >>, offset |-> 0, size |-> 0, ok |-> TRUE,
      outcome |-> "ok", referenced |-> {},
      bytes |-> << >>, fresh |-> "", puts |-> << >>, gets |-> << >>, freed |-> None,
      before |-> None, evicted |-> << >>, exposed |-> << >>, fault |-> "none" ]

\* block sizes and budgets of the store-and-map engine
StoreBlockSize == MaxBlockSize
StoreBudgets == { None, Some(2 * StoreBlockSize - 1) }
FileLens == { MaxFileLen - 1, MaxFileLen }
InitLen(p) == IF p = << "f" >> THEN MaxFileLen ELSE MaxFileLen - 1

Init ==
    /\ \E max \in StoreBudgets : c = NewCache(StoreBlockSize, max)
    /\ backing = [p \in Paths |-> [mtime |-> 1, len |-> InitLen(p)]]
    /\ steps = 0
    /\ last = NoOp
    /\ lastput = [e \in Entries |-> None]
    /\ NoThreads

\* the puts of an operation, applied to the record of most recent puts
RECURSIVE record_puts(_, _)
record_puts(lp, puts) ==
    IF puts = << >> THEN lp
    ELSE record_puts(IF Head(puts).ok
                     THEN [lp EXCEPT ![Head(puts).entry] = Some(Head(puts).data)]
                     ELSE lp,
                     Tail(puts))

\* the backing file changes: new length, new content, later mtime
Modify(p) ==
    /\ Step
    /\ backing[p].mtime < MaxMtime
    /\ \E len \in FileLens :
          backing' = [backing EXCEPT ![p] = [mtime |-> @.mtime + 1, len |-> len]]
    /\ UNCHANGED << c, last, lastput >>

\* the caller takes the result of the last operation
Return ==
    /\ last.op # "none"
    /\ last.outcome \in { "ok", "err" }
    /\ last' = NoOp
    /\ UNCHANGED << c, backing, lastput, steps, pc, holder >>

\* fetch of whole blocks first .. first + count - 1
Fetch(p, first, count) ==
    /\ Step
    /\ \E ord \in (IF check_file_mtime(c, p, backing[p].mtime).val = "Stale"
                   THEN Orders(blocks_under_path(c, p)) ELSE { << >> }) :
          LET B == c.bucket_size
              Returned(r) ==
                  /\ ~r.c.bound_hit
                  /\ c' = r.c
                  /\ last' = [NoOp EXCEPT !.op = "fetch", !.path = p,
                                          !.offset = first * B, !.size = count * B,
                                          !.ok = r.ok, !.bytes = r.bytes,
                                          !.outcome = IF r.ok THEN "ok" ELSE "err",
                                          !.fresh = r.fresh, !.puts = r.puts,
                                          !.gets = r.gets]
                  /\ lastput' = record_puts(lastput, r.puts)
                  /\ UNCHANGED backing
          IN  Returned(Cache_fetch(c, p, first * B, count * B, Content(p),
                                   backing[p].mtime, ord))

InvalidatePath(p) ==
    /\ Step
    /\ \E ord \in Orders(blocks_under_path(c, p)) :
          LET Returned(r) ==
                  /\ c' = r.c
                  /\ last' = [NoOp EXCEPT !.op = "invalidate_path", !.path = p,
                                          !.ok = r.ok,
                                          !.outcome = IF r.ok THEN "ok" ELSE "err",
                                          !.referenced = { Unwrap(c.links[e]) :
                                                           e \in blocks_under_path(c, p) }]
                  /\ UNCHANGED << backing, lastput >>
          IN  Returned(Cache_invalidate_path(c, p, ord))

FreeBlock(p, i) ==
    /\ Step
    /\ LET Returned(r) ==
               /\ c' = r.c
               /\ last' = [NoOp EXCEPT !.op = "free_block", !.path = p, !.offset = i,
                                       !.ok = r.ok, !.freed = r.freed,
                                       !.outcome = IF r.ok THEN "ok" ELSE "err"]
               /\ UNCHANGED << backing, lastput >>
       IN  Returned(Cache_free_block(c, p, i))

Next ==
    \/ \E p \in Paths : Modify(p)
    \/ \E p \in Paths, first \in 0 .. 1, count \in 1 .. 2 : Fetch(p, first, count)
    \/ \E p \in InvalidateArgs : InvalidatePath(p)
    \/ \E p \in Paths, i \in 0 .. 1 : FreeBlock(p, i)
    \/ Return

Spec == Init /\ [][Next]_vars

(***************************************************************************)
(* Restart: the engine object is dropped and a new one is constructed over *)
(* the same directory and initialised.  Between the two the number files   *)
(* in buckets/ may be lost or damaged.  An init that fails leaves no       *)
(* engine to call.                                                         *)
(***************************************************************************)
RestartBlockSizes == { StoreBlockSize - 1, StoreBlockSize }
RestartBudgets == StoreBudgets \cup { Some(StoreBlockSize - 1) }
NumberFiles == { "next_bucket_number", "bucket_size" }
\* a lost file, an empty file, a text that is no number
DamagedTexts == { None, Some(<< >>), Some(<< 10 >>) }

Restart(B, max) ==
    /\ Step
    /\ LET Returned(r) ==
               /\ c' = r.c
               /\ last' = [NoOp EXCEPT !.op = "init", !.size = B, !.ok = r.ok,
                                       !.outcome = IF r.ok THEN "ok" ELSE "fatal",
                                       !.before = Some(c), !.evicted = r.evicted,
                                       !.exposed = r.exposed]
               /\ UNCHANGED << backing, lastput >>
       IN  Returned(init(new(c, B, max)))

Damage(name, text) ==
    /\ Step
    /\ c' = IF name = "bucket_size" THEN [c EXCEPT !.bucket_size_file = text]
            ELSE [c EXCEPT !.nbn_file = text]
    /\ c' # c
    /\ UNCHANGED << backing, last, lastput >>

NextInit ==
    \/ \E p \in Paths : Modify(p)
    \/ \E p \in Paths, first \in 0 .. 1, count \in 1 .. 2 : Fetch(p, first, count)
    \/ \E p \in InvalidateArgs : InvalidatePath(p)
    \/ \E p \in Paths, i \in 0 .. 1 : FreeBlock(p, i)
    \/ \E B \in RestartBlockSizes, max \in RestartBudgets : Restart(B, max)
    \/ \E name \in NumberFiles, text \in DamagedTexts : Damage(name, text)
    \/ Return

SpecInit == Init /\ [][NextInit]_vars

(***************************************************************************)
(* The single-object engine of fscache.rs over the same directory          *)
(***************************************************************************)
FSBlockSizes == 1 .. MaxBlockSize
FSBudgets(B) == { 0, 2 * B - 1 }
\* (offset, size) of the fetches: aligned and not, within one block and
\* across blocks, up to and past the end of the file, and the whole file with
\* a size beyond its length
FSOffsets == { 0, 1, MaxFileLen - 1, MaxFileLen }
FSSizes == { 1, MaxBlockSize, MaxFileLen }
FSFetchArgs(p) ==
    IF p = << "f" >> THEN (FSOffsets \X FSSizes) \cup { << 0, MaxFileLen + 1 >> }
    ELSE { << 0, MaxFileLen >> }

InitFS ==
    /\ \E B \in FSBlockSizes : \E max \in FSBudgets(B) : c = NewCache(B, max)
    /\ backing = [p \in Paths |-> [mtime |-> 1, len |-> InitLen(p)]]
    /\ steps = 0
    /\ last = NoOp
    /\ lastput = [e \in Entries |-> None]
    /\ NoThreads

FSFetch(p, offset, size) ==
    /\ Step
    /\ \E ord \in (IF cached_mtime(c, p) # Some(backing[p].mtime)
                   THEN Orders(walk_entries(c, p)) ELSE { << >> }) :
          LET Returned(r) ==
                  /\ ~r.c.bound_hit
                  /\ c' = r.c
                  /\ last' = [NoOp EXCEPT !.op = "fetch", !.path = p, !.offset = offset,
                                          !.size = size, !.ok = (r.outcome = "ok"),
                                          !.outcome = r.outcome, !.bytes = r.bytes,
                                          !.fresh = r.fresh, !.puts = r.puts,
                                          !.gets = r.gets]
                  /\ lastput' = record_puts(lastput, r.puts)
                  /\ UNCHANGED backing
          IN  Returned(FSCache_fetch(c, p, offset, size, Content(p), backing[p].mtime,
                                     ord))

FSInvalidatePath(p) ==
    /\ Step
    /\ \E ord \in Orders(walk_entries(c, p)) :
          LET Returned(r) ==
                  /\ c' = r.c
                  /\ last' = [NoOp EXCEPT !.op = "invalidate_path", !.path = p,
                                          !.ok = (r.outcome = "ok"), !.outcome = r.outcome,
                                          !.referenced = { Unwrap(c.links[e]) :
                                                           e \in blocks_under_path(c, p) }]
                  /\ UNCHANGED << backing, lastput >>
          IN  Returned(FSCache_invalidate_path(c, p, ord))

NextFS ==
    \/ \E p \in Paths : Modify(p)
    \/ \E p \in Paths : \E a \in FSFetchArgs(p) : FSFetch(p, a[1], a[2])
    \/ \E p \in InvalidateArgs : FSInvalidatePath(p)
    \/ Return

SpecFS == InitFS /\ [][NextFS]_vars

(***************************************************************************)
(* fscache.rs with a failing cache directory: during one fetch one of the  *)
(* file-system calls of write_block_to_cache fails each time it is made.   *)
(* The backing file is read as ever.  A fetch that has panicked, or whose  *)
(* counter has overflowed, is the end of the behaviour.                    *)
(***************************************************************************)
FaultyFetchArgs == { << 0, 1 >>, << 0, MaxFileLen >> }

FSFetchFailing(p, offset, size, fault) ==
    /\ Step
    /\ \E ord \in (IF cached_mtime(c, p) # Some(backing[p].mtime)
                   THEN Orders(walk_entries(c, p)) ELSE { << >> }) :
          LET Returned(r) ==
                  /\ ~r.c.bound_hit
                  /\ c' = [r.c EXCEPT !.io_fault = "none"]
                  /\ last' = [NoOp EXCEPT !.op = "fetch", !.path = p, !.offset = offset,
                                          !.size = size, !.ok = (r.outcome = "ok"),
                                          !.outcome = r.outcome, !.bytes = r.bytes,
                                          !.fresh = r.fresh, !.puts = r.puts,
                                          !.gets = r.gets, !.fault = fault]
                  /\ lastput' = record_puts(lastput, r.puts)
                  /\ UNCHANGED backing
          IN  Returned(FSCache_fetch([c EXCEPT !.io_fault = fault], p, offset, size,
                                     Content(p), backing[p].mtime, ord))

NextFaults ==
    \/ \E p \in Paths : Modify(p)
    \/ \E p \in Paths : \E a \in FaultyFetchArgs : FSFetch(p, a[1], a[2])
    \/ \E p \in Paths : \E a \in FaultyFetchArgs : \E fault \in IoFaults :
          FSFetchFailing(p, a[1], a[2], fault)
    \/ Return

SpecFaults == InitFS /\ [][NextFaults]_vars

(***************************************************************************)
(* Orphans: map entries disappear behind the engine's back, and the engine *)
(* is asked to free the buckets left without one.                          *)
(***************************************************************************)
\* whole blocks from the start of the file
OrphanFetchArgs == { << 0, 1 >>, << 0, MaxBlockSize >>, << 0, MaxFileLen >> }

RemoveMapEntry(e) ==
    /\ Step
    /\ IsSome(c.links[e])
    /\ c' = [c EXCEPT !.links[e] = None]
    /\ UNCHANGED << backing, last, lastput >>

FSFreeOrphanedBuckets ==
    /\ Step
    /\ \E ord \in Orders(c.bucket_dirs) :
          /\ c' = free_orphaned_buckets(c, ord)
          /\ last' = [NoOp EXCEPT !.op = "free_orphaned_buckets", !.before = Some(c)]
          /\ UNCHANGED << backing, lastput >>

NextOrphans ==
    \/ \E p \in Paths : \E a \in OrphanFetchArgs : FSFetch(p, a[1], a[2])
    \/ \E e \in Entries : RemoveMapEntry(e)
    \/ FSFreeOrphanedBuckets
    \/ Return

SpecOrphans == InitFS /\ [][NextOrphans]_vars

(***************************************************************************)
(* Witnesses: set_file_mtime and check_file_mtime of block_map.rs applied  *)
(* to the witness files of the paths, in any order.                        *)
(***************************************************************************)
\* mtimes of one and two digits, before and after the epoch
WitnessMtimes ==
    { 0 - (10 * MaxMtime + 1), 0 - 1, 0, 1, 10 * MaxMtime - 1, 10 * MaxMtime + 1 }

\* lastput holds, for every path, the mtime of the most recent set_file_mtime
InitMtime ==
    /\ \E max \in StoreBudgets : c = NewCache(StoreBlockSize, max)
    /\ backing = [p \in Paths |-> [mtime |-> 1, len |-> InitLen(p)]]
    /\ steps = 0
    /\ last = NoOp
    /\ lastput = [p \in Paths |-> None]
    /\ NoThreads

SetFileMtime(p, m) ==
    /\ Step
    /\ LET Returned(r) ==
               /\ c' = r.c
               /\ last' = [NoOp EXCEPT !.op = "set_file_mtime", !.path = p,
                                       !.offset = m, !.ok = r.ok,
                                       !.outcome = IF r.ok THEN "ok" ELSE "err"]
               /\ lastput' = IF r.ok THEN [lastput EXCEPT ![p] = Some(m)] ELSE lastput
               /\ UNCHANGED backing
       IN  Returned(set_file_mtime(c, p, m))

CheckFileMtime(p, m) ==
    /\ Step
    /\ LET Returned(r) ==
               /\ last' = [NoOp EXCEPT !.op = "check_file_mtime", !.path = p,
                                       !.offset = m, !.ok = r.ok,
                                       !.outcome = IF r.ok THEN "ok" ELSE "err",
                                       !.fresh = r.val]
               /\ UNCHANGED << c, backing, lastput >>
       IN  Returned(check_file_mtime(c, p, m))

NextMtime ==
    \/ \E p \in Paths, m \in WitnessMtimes : SetFileMtime(p, m)
    \/ \E p \in Paths, m \in WitnessMtimes : CheckFileMtime(p, m)
    \/ Return

SpecMtime == InitMtime /\ [][NextMtime]_vars

(***************************************************************************)
(* The list alone: insert_as_head, insert_as_tail, to_head and disconnect  *)
(* of fsll.rs applied to the bucket directories, each within its           *)
(* precondition.                                                           *)
(***************************************************************************)
Without(s, p) == LET other(x) == x # p IN SelectSeq(s, other)

ListStep ==
    /\ last.op = "none" /\ steps < 2 * MaxSteps /\ steps' = steps + 1
    /\ UNCHANGED << pc, holder >>

\* lastput holds the list as the callers know it: the elements inserted and
\* not disconnected, head first
InitFSLL ==
    /\ c = NewCache(StoreBlockSize, None)
    /\ backing = [p \in Paths |-> [mtime |-> 1, len |-> InitLen(p)]]
    /\ steps = 0
    /\ last = NoOp
    /\ lastput = << >>
    /\ NoThreads

ListReturned(op, p, r, known) ==
    /\ c' = r.c
    /\ last' = [NoOp EXCEPT !.op = op, !.size = p, !.ok = r.ok,
                            !.outcome = IF r.ok THEN "ok" ELSE "err",
                            !.before = Some(c)]
    /\ lastput' = IF r.ok THEN known ELSE lastput
    /\ UNCHANGED backing

InsertAsHead(p) ==
    /\ ListStep
    /\ p \notin SeqToSet(lastput)
    /\ ListReturned("insert_as_head", p, insert_as_head(c, used_list, p),
                    << p >> \o lastput)

InsertAsTail(p) ==
    /\ ListStep
    /\ p \notin SeqToSet(lastput)
    /\ ListReturned("insert_as_tail", p, insert_as_tail(c, used_list, p),
                    lastput \o << p >>)

ToHead(p) ==
    /\ ListStep
    /\ p \in SeqToSet(lastput)
    /\ ListReturned("to_head", p, to_head(c, used_list, p),
                    << p >> \o Without(lastput, p))

Disconnect(p) ==
    /\ ListStep
    /\ p \in SeqToSet(lastput)
    /\ ListReturned("disconnect", p, disconnect(c, used_list, p), Without(lastput, p))

NextFSLL ==
    \/ \E p \in Buckets : InsertAsHead(p)
    \/ \E p \in Buckets : InsertAsTail(p)
    \/ \E p \in Buckets : ToHead(p)
    \/ \E p \in Buckets : Disconnect(p)
    \/ Return

SpecFSLL == InitFSLL /\ [][NextFSLL]_vars

(***************************************************************************)
(* Locks: the operations as the sequences of lock calls they make.  The    *)
(* side that starts an operation holds its write lock and the callback     *)
(* takes the lock of the other side.                                       *)
(***************************************************************************)
Acq(l) == << "acquire", l >>
Rel(l) == << "release", l >>

LockedOps == { "fetch", "invalidate_path", "free_block", "free_orphaned_buckets" }

\* a free_block that frees the bucket through a callback under the map lock
LockPlanNestedFreeBlock(op) ==
    IF op = "free_block"
    THEN << Acq("map"), Acq("store"), Rel("store"), Rel("map") >>
    ELSE IF op = "invalidate_path"
    THEN << Acq("map"), Acq("store"), Rel("store"), Rel("map") >>
    ELSE IF op = "fetch"
    THEN << Acq("store"), Acq("map"), Rel("map"), Rel("store") >>
    ELSE << Acq("store"), Rel("store") >>

\* fetch: the freshness check in the map, then put in the store with the
\* eviction callback unmapping in the map, then put_block in the map;
\* invalidate_path: the walk in the map with the callback freeing in the
\* store; free_block: look up, free, unmap, one after the other;
\* free_orphaned_buckets: the list of the buckets from the store, the
\* questions to the map, then the frees in the store, one after the other
LockPlan(op) ==
    IF op = "fetch"
    THEN << Acq("map"), Rel("map"),
            Acq("store"), Acq("map"), Rel("map"), Rel("store"),
            Acq("map"), Rel("map") >>
    ELSE IF op = "invalidate_path"
    THEN << Acq("map"), Acq("store"), Rel("store"), Rel("map") >>
    ELSE IF op = "free_block"
    THEN << Acq("map"), Rel("map"), Acq("store"), Rel("store"), Acq("map"), Rel("map") >>
    ELSE << Acq("store"), Rel("store"), Acq("map"), Rel("map"),
            Acq("store"), Rel("store") >>

\* the lock call thread t makes next, if it is inside an operation
NextCall(t) ==
    IF pc[t].op = "idle" THEN << "none", "none" >> ELSE LockPlan(pc[t].op)[pc[t].at]

Begin(t, op) ==
    /\ pc[t] = Idle
    /\ pc' = [pc EXCEPT ![t] = [op |-> op, at |-> 1]]
    /\ UNCHANGED << c, backing, last, lastput, steps, holder >>

Acquire(t) ==
    /\ NextCall(t)[1] = "acquire"
    /\ IsNone(holder[NextCall(t)[2]])
    /\ holder' = [holder EXCEPT ![NextCall(t)[2]] = Some(t)]
    /\ pc' = [pc EXCEPT ![t].at = @ + 1]
    /\ UNCHANGED << c, backing, last, lastput, steps >>

\* the operation returns with its last release
Release(t) ==
    /\ NextCall(t)[1] = "release"
    /\ holder' = [holder EXCEPT ![NextCall(t)[2]] = None]
    /\ pc' = [pc EXCEPT ![t] = IF pc[t].at = Len(LockPlan(pc[t].op)) THEN Idle
                                ELSE [pc[t] EXCEPT !.at = @ + 1]]
    /\ UNCHANGED << c, backing, last, lastput, steps >>

NextLocks ==
    \/ \E t \in Threads, op \in LockedOps : Begin(t, op)
    \/ \E t \in Threads : Acquire(t)
    \/ \E t \in Threads : Release(t)

SpecLocks == Init /\ [][NextLocks]_vars

(***************************************************************************)
(* bucket_store.rs, put into a new bucket, one file-system call at a time. *)
(* Thread 1 is the caller; pc[1].at tells how far new_bucket has come:     *)
(* 1 the directory is created, 2 next_bucket_number is opened (create +    *)
(* truncate), 3 its text is written, 4 the bucket is on the used list and  *)
(* new_bucket has returned.  The process can die between any two calls and *)
(* is then started again over the same directory.                          *)
(***************************************************************************)
Running == last.outcome # "fatal"

Calling == pc[1].op = "put"

\* put of one byte with enough room, so the budget loop frees nothing
PutSize == Len(<< 0 >>)

\* put with a bucket on the free list: get_bucket re-uses it
StorePutReuse(e) ==
    /\ Running /\ ~Calling
    /\ free_bytes_needed_for_write(c, PutSize) = 0
    /\ ~is_empty(c, free_list)
    /\ LET Returned(r) == r.ok /\ c' = r.c
       IN  Returned(put(c, e, << 0 >>))
    /\ UNCHANGED << backing, last, lastput, steps, pc, holder >>

\* put with an empty free list: new_bucket, fs::create_dir
NewBucketCreateDir(e) ==
    /\ Running /\ ~Calling
    /\ free_bytes_needed_for_write(c, PutSize) = 0
    /\ is_empty(c, free_list)
    /\ bucket_in_bounds(c.next_bucket_number)
    /\ c.next_bucket_number \notin c.bucket_dirs
    /\ c' = [c EXCEPT !.bucket_dirs = @ \cup { c.next_bucket_number }]
    /\ pc' = [pc EXCEPT ![1] = [op |-> "put", at |-> 1, parent |-> e]]
    /\ UNCHANGED << backing, last, lastput, steps, holder >>

\* write_number_file: OpenOptions write + truncate + create
NewBucketOpenCounter ==
    /\ Calling /\ pc[1].at = 1
    /\ c' = [c EXCEPT !.nbn_file = Some(<< >>)]
    /\ pc' = [pc EXCEPT ![1].at = 2]
    /\ UNCHANGED << backing, last, lastput, steps, holder >>

\* write_number_file: write!("{}", next_bucket_number + 1); when the write
\* fails new_bucket and put return the error
NewBucketWriteCounter(written) ==
    /\ Calling /\ pc[1].at = 2
    /\ c' = IF written
            THEN [c EXCEPT !.nbn_file = write_number_file(c.next_bucket_number + 1)]
            ELSE c
    /\ pc' = [pc EXCEPT ![1] = IF written THEN [@ EXCEPT !.at = 3] ELSE Idle]
    /\ UNCHANGED << backing, last, lastput, steps, holder >>

\* used_list.insert_as_head, then self.next_bucket_number += 1
NewBucketInsert ==
    /\ Calling /\ pc[1].at = 3
    /\ LET Returned(r) ==
               /\ c' = IF r.ok THEN [r.c EXCEPT !.next_bucket_number = @ + 1] ELSE r.c
               /\ pc' = [pc EXCEPT ![1] = IF r.ok THEN [@ EXCEPT !.at = 4] ELSE Idle]
       IN  Returned(insert_as_head(c, used_list, c.next_bucket_number))
    /\ UNCHANGED << backing, last, lastput, steps, holder >>

\* the rest of put: the data file, the parent link, used_bytes
PutFill ==
    /\ Calling /\ pc[1].at = 4
    /\ c' = [c EXCEPT !.parent[c.next_bucket_number - 1] = Some(pc[1].parent),
                      !.data[c.next_bucket_number - 1] = Some(<< 0 >>),
                      !.used_bytes = @ + PutSize]
    /\ pc' = [pc EXCEPT ![1] = Idle]
    /\ UNCHANGED << backing, last, lastput, steps, holder >>

StoreFreeBucket(b) ==
    /\ Running /\ ~Calling
    /\ LET Returned(r) == r.ok /\ c' = r.c
       IN  Returned(free_bucket(c, b))
    /\ UNCHANGED << backing, last, lastput, steps, pc, holder >>

\* the process dies, wherever it is, and a new one is started with the same
\* options: new and init over the directory as it was left
CrashRestart ==
    /\ LET Returned(r) ==
               /\ c' = r.c
               /\ last' = IF r.ok THEN NoOp
                          ELSE [NoOp EXCEPT !.op = "init", !.ok = FALSE,
                                            !.outcome = "fatal"]
       IN  Returned(init(new(c, c.bucket_size, c.max_bytes)))
    /\ pc' = [t \in Threads |-> Idle]
    /\ UNCHANGED << backing, lastput, steps, holder >>

NextCrash ==
    \/ \E e \in Entries : StorePutReuse(e)
    \/ \E e \in Entries : NewBucketCreateDir(e)
    \/ NewBucketOpenCounter
    \/ \E written \in BOOLEAN : NewBucketWriteCounter(written)
    \/ NewBucketInsert
    \/ PutFill
    \/ \E b \in Buckets : StoreFreeBucket(b)
    \/ CrashRestart

SpecCrash == Init /\ [][NextCrash]_vars

(***************************************************************************)
(* The store on a disk that is full or failing: during one fetch of one    *)
(* block a step of put fails, `times` times in a row, with ENOSPC or with  *)
(* another error (EIO).                                                    *)
(***************************************************************************)
PutFaults ==
    { [step |-> PutSteps[i], errno |-> "ENOSPC", times |-> k] :
        i \in 1 .. Len(PutSteps), k \in 1 .. MaxBuckets }
    \cup { [step |-> PutSteps[i], errno |-> "EIO", times |-> 1] : i \in 1 .. Len(PutSteps) }

FetchFailing(p, first, fault) ==
    /\ Step
    /\ \E ord \in (IF check_file_mtime(c, p, backing[p].mtime).val = "Stale"
                   THEN Orders(blocks_under_path(c, p)) ELSE { << >> }) :
          LET B == c.bucket_size
              Returned(r) ==
                  /\ ~r.c.bound_hit
                  /\ c' = [r.c EXCEPT !.io_fault = "none", !.io_errno = "none",
                                      !.io_left = 0]
                  /\ last' = [NoOp EXCEPT !.op = "fetch_failing", !.path = p,
                                          !.offset = first * B, !.size = B,
                                          !.ok = r.ok, !.bytes = r.bytes,
                                          !.outcome = IF r.ok THEN "ok" ELSE "err",
                                          !.fresh = r.fresh, !.puts = r.puts,
                                          !.gets = r.gets, !.fault = fault,
                                          !.before = Some(c)]
                  /\ lastput' = record_puts(lastput, r.puts)
                  /\ UNCHANGED backing
          IN  Returned(Cache_fetch([c EXCEPT !.io_fault = fault.step,
                                             !.io_errno = fault.errno,
                                             !.io_left = fault.times],
                                   p, first * B, B, Content(p), backing[p].mtime, ord))

NextEnospc ==
    \/ \E p \in Paths, first \in 0 .. 1, count \in 1 .. 2 : Fetch(p, first, count)
    \/ \E first \in 0 .. 1, fault \in PutFaults : FetchFailing(<< "f" >>, first, fault)
    \/ Return

SpecEnospc == Init /\ [][NextEnospc]_vars

(***************************************************************************)
(* block_map.rs and link.rs: put_block one file-system call at a time.     *)
(* Thread 1 is in put_block (pc[1].at = 1: the old link is unlinked, the   *)
(* new one not yet made), thread 2 calls get_block at any moment, and the  *)
(* process can die between the two calls of makelink.                      *)
(***************************************************************************)
ReplacedEntries == { << << "f" >>, i >> : i \in 0 .. 1 }

InPutBlock == pc[1].op = "put_block"

MapSetFileMtime(p) ==
    /\ ~InPutBlock
    /\ c' = set_file_mtime(c, p, backing[p].mtime).c
    /\ c' # c
    /\ last' = NoOp
    /\ UNCHANGED << backing, lastput, steps, pc, holder >>

\* makelink: fs::remove_file(link_path), ENOENT ignored
PutBlockUnlink(e, b) ==
    /\ ~InPutBlock
    /\ map_path(e[1]) \in c.map_dirs
    /\ c' = [c EXCEPT !.links[e] = None]
    /\ pc' = [pc EXCEPT ![1] = [op |-> "put_block", at |-> 1, entry |-> e,
                                bucket |-> b, old |-> c.links[e]]]
    /\ last' = NoOp
    /\ UNCHANGED << backing, lastput, steps, holder >>

\* makelink: unix::fs::symlink(target, link_path)
PutBlockSymlink ==
    /\ InPutBlock
    /\ c' = [c EXCEPT !.links[pc[1].entry] = Some(pc[1].bucket)]
    /\ pc' = [pc EXCEPT ![1] = Idle]
    /\ last' = NoOp
    /\ UNCHANGED << backing, lastput, steps, holder >>

GetBlock(e) ==
    /\ last' = [NoOp EXCEPT !.op = "get_block", !.path = e[1], !.offset = e[2],
                            !.freed = get_block(c, e[1], e[2])]
    /\ UNCHANGED << c, backing, lastput, steps, pc, holder >>

\* the process dies inside put_block; the directory stays as it is
MapCrash ==
    /\ InPutBlock
    /\ pc' = [pc EXCEPT ![1] = Idle]
    /\ last' = [NoOp EXCEPT !.op = "crash", !.path = pc[1].entry[1],
                            !.offset = pc[1].entry[2], !.before = Some(pc[1].old),
                            !.freed = Some(pc[1].bucket)]
    /\ UNCHANGED << c, backing, lastput, steps, holder >>

NextReplace ==
    \/ \E p \in Paths : MapSetFileMtime(p)
    \/ \E e \in ReplacedEntries, b \in Buckets : PutBlockUnlink(e, b)
    \/ PutBlockSymlink
    \/ \E e \in ReplacedEntries : GetBlock(e)
    \/ MapCrash

SpecReplace == Init /\ [][NextReplace]_vars

(***************************************************************************)
(* Properties                                                              *)
(***************************************************************************)
UsedSet(cc) == SeqToSet(list_seq(cc, used_list))
FreeSet(cc) == SeqToSet(list_seq(cc, free_list))

Under(path, q) == IsPrefix(map_path(path), map_path(q))

C2_FetchReturnsRange ==
    (last.op = "fetch" /\ last.outcome = "ok") =>
        LET D == Content(last.path)
        IN  last.bytes = Slice(D, Min(last.offset, Len(D)),
                               Min(last.offset + last.size, Len(D)))

\* an unaligned fetch across blocks, one of them already in the map
C2_Witness ==
    /\ last.op = "fetch" /\ last.outcome = "ok"
    /\ last.offset = 1 /\ last.size = MaxFileLen
    /\ Len(last.bytes) = backing[last.path].len - 1
    /\ c.bucket_size > 1
    /\ last.gets # << >>

\* C3: used_bytes is the sum of the data lengths of the used-list buckets
\* and is within max_bytes when that is set, after every operation and after
\* every successful put inside a fetch.
C3_UsedBytesAccounting ==
    /\ c.used_bytes = held_bytes(c)
    /\ IsSome(c.max_bytes) => c.used_bytes <= Unwrap(c.max_bytes)
    /\ \A k \in 1 .. Len(last.puts) :
          last.puts[k].ok =>
              /\ last.puts[k].used_after = last.puts[k].held_after
              /\ IsSome(c.max_bytes) => last.puts[k].used_after <= Unwrap(c.max_bytes)

\* a put under a budget has evicted and the store still holds data
C3_Witness ==
    /\ c.used_bytes > 0
    /\ IsSome(c.max_bytes)
    /\ \E k \in 1 .. Len(last.puts) : last.puts[k].ok /\ last.puts[k].evicted # << >>

\* C4: every used-list bucket has a parent that resolves to a map entry
\* whose target is that bucket; every free-list bucket has no data and no
\* parent.
C4_BucketsConsistent ==
    /\ \A b \in UsedSet(c) :
          IsSome(c.parent[b]) /\ c.links[Unwrap(c.parent[b])] = Some(b)
    /\ \A b \in FreeSet(c) : IsNone(c.data[b]) /\ IsNone(c.parent[b])

\* C5: every block-map entry targets an existing bucket directory that is on
\* the used list and not on the free list.
C5_EntriesTargetUsed ==
    \A e \in Entries :
        IsSome(c.links[e]) =>
            /\ Unwrap(c.links[e]) \in c.bucket_dirs
            /\ Unwrap(c.links[e]) \in UsedSet(c)
            /\ Unwrap(c.links[e]) \notin FreeSet(c)

\* free_block has freed a bucket while another block stays mapped
C5_Witness ==
    /\ last.op = "free_block" /\ last.ok /\ IsSome(last.freed)
    /\ FreeSet(c) # {}
    /\ \E e \in Entries : IsSome(c.links[e])

\* C6: a get on the bucket that get_block names for (p,i) returns exactly the
\* bytes put for (p,i).
C6_GetReturnsPut ==
    \A k \in 1 .. Len(last.gets) :
        LET g == last.gets[k]
        IN  g.ok /\ g.data = Unwrap(lastput[g.entry])

C8_EvictsTailUntilFits ==
    \A k \in 1 .. Len(last.puts) :
        LET pl == last.puts[k]
            n == Len(pl.lru)
            m == Len(pl.evicted)
            freed(j) == sum_sizes(SubSeq(pl.lru, n - j + 1, n))
            over(j) == /\ IsSome(c.max_bytes)
                       /\ pl.used_before - freed(j) + Len(pl.data) > Unwrap(c.max_bytes)
        IN  /\ m <= n
            /\ \A i \in 1 .. m : pl.lru[n - i + 1].parent = Some(pl.evicted[i])
            /\ \A j \in 0 .. (m - 1) : over(j)
            /\ pl.ok =>
                  /\ ~over(m)
                  /\ pl.links_after =
                        { l \in pl.links_before : \A i \in 1 .. m : pl.evicted[i] # l[1] }
                  /\ IsSome(c.max_bytes) => pl.used_after <= Unwrap(c.max_bytes)

\* one put has evicted two buckets and succeeded
C8_Witness ==
    \E k \in 1 .. Len(last.puts) :
        last.puts[k].ok /\ Len(last.puts[k].evicted) = 2

\* C9: a fetch that finds the witness stale returns no byte of the old
\* version, leaves the witness at the new mtime, and leaves no used bucket
\* holding bytes of the old version of the path.
C9_StaleFetchDropsOldBlocks ==
    (last.op = "fetch" /\ last.fresh = "Stale" /\ last.outcome = "ok") =>
        LET p == last.path
            m == backing[p].mtime
        IN  /\ \A k \in 1 .. Len(last.bytes) : last.bytes[k][2] = m
            /\ cached_mtime(c, p) = Some(m)
            /\ \A b \in UsedSet(c) :
                  IsSome(c.data[b]) =>
                      \A k \in 1 .. Len(Unwrap(c.data[b])) :
                          Unwrap(c.data[b])[k][1] = p => Unwrap(c.data[b])[k][2] = m

\* C10: after a successful invalidate_path(p) nothing of p is left in the map,
\* the buckets it referenced are on the free list, no bucket's parent lies
\* under p, and a second invalidate_path(p) succeeds and changes nothing.
C10_InvalidateIdempotent ==
    (last.op = "invalidate_path" /\ last.ok) =>
        LET p == last.path
        IN  /\ \A d \in c.map_dirs : ~IsPrefix(map_path(p), d)
            /\ \A e \in Entries : Under(p, e[1]) => IsNone(c.links[e])
            /\ \A q \in Paths : Under(p, q) => IsNone(c.mtime[q])
            /\ last.referenced \subseteq FreeSet(c)
            /\ \A b \in c.bucket_dirs :
                  IsSome(c.parent[b]) => ~Under(p, Unwrap(c.parent[b])[1])
            /\ \A ord \in Orders(blocks_under_path(c, p)) :
                  LET r == invalidate_path(c, p, ord)
                  IN  r.ok /\ r.c = c

\* C11: a new engine over the directory an engine left, initialised with the
\* stored block size and a budget the cache is within, succeeds, has the
\* used_bytes of the engine before it and the used list in the same order,
\* and evicts nothing.
C11_RestartRoundTrip ==
    (last.op = "init" /\ IsSome(last.before)) =>
        LET b == Unwrap(last.before)
            within == IsNone(c.max_bytes) \/ b.used_bytes <= Unwrap(c.max_bytes)
            intact == /\ b.bucket_size_file = write_number_file(last.size)
                      /\ b.nbn_file = write_number_file(b.next_bucket_number)
        IN  /\ (within /\ intact) => last.ok
            /\ (within /\ last.ok) =>
                  /\ c.used_bytes = b.used_bytes
                  /\ list_seq(c, used_list) = list_seq(b, used_list)
                  /\ last.evicted = << >>

\* a restart under a budget with two buckets on the used list
C11_Witness ==
    /\ last.op = "init" /\ last.ok
    /\ IsSome(c.max_bytes)
    /\ c.used_bytes > 0
    /\ Len(list_seq(c, used_list)) = 2
    /\ Unwrap(last.before).used_bytes = c.used_bytes

\* C12: at no eviction, in put's budget loop or in init's over-size loop, is
\* there a moment between the release of the victim bucket and the callback
\* at which a map entry targets a bucket on the free list.
C12_UnmapBeforeRelease ==
    /\ \A k \in 1 .. Len(last.puts) :
          \A i \in 1 .. Len(last.puts[k].exposed) : last.puts[k].exposed[i] = {}
    /\ \A i \in 1 .. Len(last.exposed) : last.exposed[i] = {}

\* C13: a fetch that starts at or past the end of the backing file returns
\* no bytes and no error, and none of its blocks is given a bucket or a map
\* entry.
C13_FetchPastEndCachesNothing ==
    (last.op = "fetch" /\ last.offset >= backing[last.path].len) =>
        /\ last.outcome = "ok"
        /\ last.bytes = << >>
        /\ \A k \in 1 .. Len(last.puts) : ~last.puts[k].ok

\* C14: after a first fetch of a whole file from offset 0, with no budget,
\* the blocks mapped for the path are exactly 0 .. ceil(|D|/B)-1, block i's
\* bucket holds D[i*B .. min((i+1)*B, |D|)], the witness is the file's
\* mtime, and there is no entry for index ceil(|D|/B).
C14_WholeFileFetchMapsItsBlocks ==
    (/\ last.op = "fetch" /\ steps = 1 /\ c.max_bytes = 0
     /\ last.offset = 0 /\ last.size >= backing[last.path].len) =>
        LET p == last.path
            D == Content(p)
            B == c.bucket_size
            n == (Len(D) + B - 1) \div B
        IN  /\ \A i \in BlockIdx : IsSome(c.links[<< p, i >>]) <=> i < n
            /\ \A i \in 0 .. (n - 1) :
                  /\ IsSome(c.links[<< p, i >>])
                  /\ c.data[Unwrap(c.links[<< p, i >>])]
                        = Some(Slice(D, i * B, Min((i + 1) * B, Len(D))))
            /\ cached_mtime(c, p) = Some(backing[p].mtime)

\* C15: free_orphaned_buckets moves to the free list exactly the used-list
\* buckets whose parent names a map entry that is not mapped, leaves every
\* other bucket where it was, and lowers used_bytes by the data lengths of
\* the buckets it freed.
C15_FreesExactlyOrphans ==
    (last.op = "free_orphaned_buckets" /\ IsSome(last.before)) =>
        LET b == Unwrap(last.before)
            orphans == { x \in UsedSet(b) : /\ IsSome(b.parent[x])
                                            /\ IsNone(b.links[Unwrap(b.parent[x])]) }
        IN  /\ UsedSet(c) = UsedSet(b) \ orphans
            /\ FreeSet(c) = FreeSet(b) \cup orphans
            /\ c.used_bytes + sum_data(b, orphans) = b.used_bytes

\* C16: init fails when the stored bucket_size differs from the configured
\* block size or when bucket_size or next_bucket_number is not a number; a
\* failed init evicts nothing, calls no handler and leaves every list, map
\* entry and data file as it found them.
C16_InitRejectsBadNumberFiles ==
    (last.op = "init" /\ IsSome(last.before)) =>
        LET b == Unwrap(last.before)
            unparsed(file) == IsSome(file) /\ ~parse(Unwrap(file)).ok
            mismatch == /\ IsSome(b.bucket_size_file)
                        /\ parse(Unwrap(b.bucket_size_file)).ok
                        /\ parse(Unwrap(b.bucket_size_file)).n # last.size
            bad == mismatch \/ unparsed(b.bucket_size_file) \/ unparsed(b.nbn_file)
        IN  bad =>
                  /\ ~last.ok
                  /\ last.evicted = << >>
                  /\ [c EXCEPT !.used_bytes = b.used_bytes, !.max_bytes = b.max_bytes,
                               !.bucket_size = b.bucket_size,
                               !.next_bucket_number = b.next_bucket_number,
                               !.nbn_file = b.nbn_file,
                               !.bucket_size_file = b.bucket_size_file] = b

\* a restart over budget is refused for its number files with two buckets in use
C16_Witness ==
    /\ last.op = "init" /\ ~last.ok /\ IsSome(last.before)
    /\ Unwrap(last.before).bucket_size_file = write_number_file(last.size + 1)
    /\ IsSome(c.max_bytes)
    /\ Unwrap(last.before).used_bytes > Unwrap(c.max_bytes)
    /\ Len(list_seq(c, used_list)) = 2

\* C17: init on a cache directory that has no bucket_size file fails.
C17_MissingBucketSizeIsFatal ==
    (/\ last.op = "init" /\ IsSome(last.before)
     /\ IsNone(Unwrap(last.before).bucket_size_file)) => ~last.ok

\* C18: an init that finds more data than max_bytes evicts buckets from the
\* tail of the used list, calling the handler with the parent of each, and
\* only while used_bytes is above max_bytes; after a successful init
\* used_bytes is at most max_bytes and is the sum of the data lengths left.
C18_InitEvictsDownToBudget ==
    (last.op = "init" /\ IsSome(last.before) /\ IsSome(c.max_bytes)) =>
        LET b == Unwrap(last.before)
            u == list_seq(b, used_list)
            k == Len(last.evicted)
            victims(j) == { u[i] : i \in (Len(u) - j + 1) .. Len(u) }
            found == compute_cache_used_size(b)
        IN  /\ k <= Len(u)
            /\ \A i \in 1 .. k : last.evicted[i] = Unwrap(b.parent[u[Len(u) + 1 - i]])
            /\ \A j \in 0 .. (k - 1) : found - sum_data(b, victims(j)) > Unwrap(c.max_bytes)
            /\ list_seq(c, used_list) = SubSeq(u, 1, Len(u) - k)
            /\ last.ok => /\ c.used_bytes <= Unwrap(c.max_bytes)
                          /\ c.used_bytes = sum_data(c, c.bucket_dirs)
                          /\ c.used_bytes = found - sum_data(b, victims(k))

\* a restart under a smaller budget evicted the tail and kept the head
C18_Witness ==
    /\ last.op = "init" /\ last.ok /\ IsSome(last.before)
    /\ Len(last.evicted) = 1
    /\ Len(list_seq(c, used_list)) = 1
    /\ c.used_bytes > 0

\* C19: check_file_mtime(p, m) answers NotPresent while no witness was set
\* for p; once set_file_mtime(p, w) was the most recent set for p it answers
\* Current for m = w and Stale for every other m, whatever was set before
\* and whatever was set for other paths.
C19_WitnessRoundTrip ==
    (last.op = "check_file_mtime") =>
        /\ last.ok
        /\ last.fresh = IF IsNone(lastput[last.path]) THEN "NotPresent"
                        ELSE IF Unwrap(lastput[last.path]) = last.offset THEN "Current"
                        ELSE "Stale"

\* a witness was overwritten, the other path has one too, and the check
\* with the overwritten mtime's negation is Stale
C19_Witness ==
    /\ last.op = "check_file_mtime"
    /\ last.fresh = "Stale"
    /\ last.path = << "f" >>
    /\ lastput[<< "f" >>] = Some(0 - last.offset)
    /\ last.offset > 0
    /\ IsSome(lastput[<< "d", "g" >>])
    /\ lastput[<< "d", "g" >>] # lastput[<< "f" >>]

\* C20: pruning stops at the map root: whatever invalidate_path and
\* unmap_block calls were made, the map root directory is still there.
C20_PruningKeepsMapRoot == map_dir \in c.map_dirs

\* C21: freeing the bucket of the last mapped block of a path removes the
\* path's witness and prunes its map directory; freeing the bucket of a
\* block that is not the last leaves the witnesses and every other entry as
\* they were.
C21_LastUnmapRemovesWitness ==
    \A b \in UsedSet(c) :
        (IsSome(c.parent[b]) /\ c.links[Unwrap(c.parent[b])] = Some(b)) =>
            LET e == Unwrap(c.parent[b])
                others == { x \in Entries : x[1] = e[1] /\ x # e /\ IsSome(c.links[x]) }
                freed(r) ==
                    r.ok =>
                        /\ IsNone(r.c.links[e])
                        /\ IF others = {}
                           THEN /\ cached_mtime(r.c, e[1]) = None
                                /\ map_path(e[1]) \notin r.c.map_dirs
                           ELSE /\ r.c.mtime = c.mtime
                                /\ \A x \in Entries \ {e} : r.c.links[x] = c.links[x]
            IN  freed(FSCache_free_bucket(c, b))

\* C22: after every list operation made within its precondition the head
\* and tail anchors are both set or both unset, the head has no prev and the
\* tail no next, next and prev mirror each other, no element points to
\* itself, and following next from the head visits exactly the elements
\* inserted and not disconnected, once each, and ends at the tail.
C22_ListWellFormed ==
    (last.op \in { "insert_as_head", "insert_as_tail", "to_head", "disconnect" }) =>
        LET head == c.base["head"]
            tail == c.base["tail"]
            s == list_seq(c, used_list)
        IN  /\ IsNone(head) = IsNone(tail)
            /\ IsSome(head) => IsNone(c.prev[Unwrap(head)])
            /\ IsSome(tail) => IsNone(c.next[Unwrap(tail)])
            /\ \A x \in Buckets :
                  /\ IsSome(c.next[x]) => c.prev[Unwrap(c.next[x])] = Some(x)
                  /\ IsSome(c.prev[x]) => c.next[Unwrap(c.prev[x])] = Some(x)
                  /\ c.next[x] # Some(x)
                  /\ c.prev[x] # Some(x)
            /\ SeqToSet(s) = SeqToSet(lastput)
            /\ Len(s) = Cardinality(SeqToSet(s))
            /\ (s # << >>) => tail = Some(s[Len(s)])
            /\ (s = << >>) => IsNone(tail)

\* the middle one of three elements was disconnected
C22_Witness ==
    /\ last.op = "disconnect" /\ last.ok /\ IsSome(last.before)
    /\ Len(list_seq(Unwrap(last.before), used_list)) = 3
    /\ list_seq(Unwrap(last.before), used_list)[2] = last.size
    /\ Len(list_seq(c, used_list)) = 2

\* C23: to_head(p) for an element p linked in the list succeeds; afterwards
\* p is the head and the other elements follow in the order they had; when
\* p was the head already nothing changes.
C23_ToHeadPromotes ==
    (last.op = "to_head" /\ IsSome(last.before)) =>
        LET b == Unwrap(last.before)
            s == list_seq(b, used_list)
        IN  /\ last.ok
            /\ list_seq(c, used_list) = << last.size >> \o Without(s, last.size)
            /\ (s[1] = last.size) => c = b

\* C24: free_bucket(b) for a bucket b of the used list succeeds, takes b out
\* of the used list and appends it to the free list, removes its data and
\* parent, lowers used_bytes by the former data length and returns that
\* length; the order of the other used buckets, the data and parent of every
\* other bucket and next_bucket_number stay as they were.
C24_FreeBucketFrame ==
    \A b \in UsedSet(c) :
        LET size == IF IsSome(c.data[b]) THEN Len(Unwrap(c.data[b])) ELSE 0
            freed(r) ==
                /\ r.ok
                /\ r.freed = size
                /\ list_seq(r.c, used_list) = Without(list_seq(c, used_list), b)
                /\ list_seq(r.c, free_list) = list_seq(c, free_list) \o << b >>
                /\ IsNone(r.c.data[b])
                /\ IsNone(r.c.parent[b])
                /\ r.c.used_bytes = c.used_bytes - size
                /\ \A x \in Buckets \ {b} : /\ r.c.data[x] = c.data[x]
                                            /\ r.c.parent[x] = c.parent[x]
                /\ r.c.next_bucket_number = c.next_bucket_number
                /\ r.c.nbn_file = c.nbn_file
                /\ r.c.bucket_dirs = c.bucket_dirs
                /\ r.c.links = c.links
        IN  freed(free_bucket(c, b))

\* a free_block freed a bucket with data behind another one on the free
\* list, and a bucket is still in use
C24_Witness ==
    /\ last.op = "free_block" /\ last.ok /\ IsSome(last.freed)
    /\ Unwrap(last.freed) > 0
    /\ Len(list_seq(c, free_list)) = 2
    /\ Len(list_seq(c, used_list)) = 1
    /\ c.used_bytes > 0

\* C25: after every completed operation the bucket directories are the
\* numbers below next_bucket_number, which is the number in its file; a put
\* makes a new directory only when the free list is empty and nothing was
\* evicted, the new one being next_bucket_number, which no directory has yet;
\* otherwise it takes the tail of the free list.
C25_BucketNumbering ==
    /\ c.bucket_dirs = 0 .. (c.next_bucket_number - 1)
    /\ c.nbn_file = write_number_file(c.next_bucket_number)
    /\ \A e \in Entries : \A len \in { 1, c.bucket_size } :
          LET free == list_seq(c, free_list)
              taken(r) ==
                  r.ok =>
                      IF free = << >> /\ r.evicted = << >>
                      THEN /\ r.bucket = c.next_bucket_number
                           /\ r.bucket \notin c.bucket_dirs
                           /\ r.c.bucket_dirs = c.bucket_dirs \cup { r.bucket }
                           /\ r.c.next_bucket_number = c.next_bucket_number + 1
                           /\ r.c.nbn_file = write_number_file(c.next_bucket_number + 1)
                      ELSE /\ r.c.bucket_dirs = c.bucket_dirs
                           /\ r.c.next_bucket_number = c.next_bucket_number
                           /\ r.c.nbn_file = c.nbn_file
                           /\ r.bucket \in c.bucket_dirs
                           /\ (r.evicted = << >>) => r.bucket = free[Len(free)]
          IN  taken(put(c, e, [k \in 1 .. len |-> << e[1], 0, k >>]))

\* two buckets are free and one is in use; a put takes the one freed last
C25_Witness ==
    /\ Len(list_seq(c, free_list)) = 2
    /\ Len(list_seq(c, used_list)) = 1
    /\ c.next_bucket_number = 3
    /\ last.op = "free_block" /\ last.ok
    /\ LET taken(r) == r.ok /\ r.evicted = << >> /\ Some(r.bucket) = get_tail(c, free_list)
       IN  taken(put(c, << << "f" >>, 0 >>, << << << "f" >>, 0, 1 >> >>))

\* thread t waits for a lock that thread u holds
WaitsFor(t, u) ==
    /\ NextCall(t)[1] = "acquire"
    /\ holder[NextCall(t)[2]] = Some(u)

Deadlocked(t, u) == t # u /\ WaitsFor(t, u) /\ WaitsFor(u, t)

StaleRefetchOfOnlyBlock ==
    /\ steps = 3
    /\ last.op = "fetch" /\ last.ok /\ last.fresh = "Stale"
    /\ Len(last.puts) = 1
    /\ last.puts[1].ok /\ last.puts[1].mapped
    /\ \A e \in Entries : IsSome(lastput[e]) <=> e = last.puts[1].entry

\* C27: after one block was cached and the file changed, the fetch of the
\* block frees the old bucket and allocates a new one: there are more
\* buckets than the one before, and used_bytes is the size of the block.
C27_StaleRefetchAllocatesBucket ==
    StaleRefetchOfOnlyBlock =>
        /\ Cardinality(c.bucket_dirs) > 1
        /\ c.used_bytes = Len(last.puts[1].data)

\* C27, amended: the fetch frees the old bucket and puts the block into that
\* same bucket, taken back from the free list: there is still one bucket
\* directory, the counter has not moved, the bucket is alone on the used
\* list, the free list is empty and used_bytes is the size of the block.
C27_StaleRefetchReusesBucket ==
    StaleRefetchOfOnlyBlock =>
        /\ c.bucket_dirs = { 0 }
        /\ c.next_bucket_number = 1
        /\ last.puts[1].bucket = 0
        /\ last.puts[1].evicted = << >>
        /\ list_seq(c, used_list) = << 0 >>
        /\ list_seq(c, free_list) = << >>
        /\ c.links[last.puts[1].entry] = Some(0)
        /\ c.data[0] = Some(last.puts[1].data)
        /\ c.used_bytes = Len(last.puts[1].data)

\* the block fetched again is the short last block of its file
C27_Witness ==
    /\ StaleRefetchOfOnlyBlock
    /\ Len(last.puts[1].data) < c.bucket_size
    /\ last.bytes = last.puts[1].data

\* a fetch that did not find a block in the cache, read it from the backing
\* file, and could not write it to the cache because a call failed
FailedCacheWrite ==
    /\ last.op = "fetch" /\ last.fault # "none"
    /\ \E i \in 1 .. Len(last.puts) : ~last.puts[i].ok

\* C28: a cache miss followed by a failure of the cache write is not fatal:
\* the fetch returns, without error, the bytes of the backing file.
C28_FailedCacheWriteIsNotFatal ==
    FailedCacheWrite =>
        /\ last.outcome = "ok"
        /\ LET D == Content(last.path)
           IN  last.bytes = Slice(D, Min(last.offset, Len(D)),
                                  Min(last.offset + last.size, Len(D)))

\* C29: when a fetch finds a map entry whose bucket cannot be used (its data
\* cannot be read or its promotion fails), the fetch returns an error and
\* does not read the block from the backing file to cache it again.
C29_UnusableBucketIsAnError ==
    last.op = "fetch" =>
        \A i \in 1 .. Len(last.gets) :
            ~last.gets[i].ok =>
                /\ ~last.ok
                /\ \A j \in 1 .. Len(last.puts) : last.puts[j].entry # last.gets[i].entry

\* C30: in every state, also while a bucket is being created and after the
\* process has died or a call has failed on the way, next_bucket_number on
\* disk holds a number and every bucket on the used or the free list has a
\* number below it.
C30_ListedBelowPersistedCounter ==
    \A b \in UsedSet(c) \cup FreeSet(c) :
        /\ IsSome(c.nbn_file)
        /\ parse(Unwrap(c.nbn_file)).ok
        /\ b < parse(Unwrap(c.nbn_file)).n

\* the buckets of a used list as logged by a put, head first
LruBuckets(pl) == [i \in 1 .. Len(pl.lru) |-> pl.lru[i].bucket]

\* the i-th deletion of the retries of a put took the bucket that the put
\* had been given before
OwnDeletion(pl, i) ==
    /\ IsSome(pl.taken)
    /\ i > pl.taken_after
    /\ pl.retry_evicted[i] = Unwrap(pl.taken)

\* the map entry that the parent of the i-th bucket deleted names
VictimParent(pl, i) ==
    LET j == CHOOSE x \in 1 .. Len(pl.lru) : pl.lru[x].bucket = pl.retry_evicted[i]
    IN  IF OwnDeletion(pl, i) THEN pl.entry ELSE Unwrap(pl.lru[j].parent)

\* that entry was not there when the delete handler was told: it was not
\* there before the put, or the handler had removed it for an earlier bucket,
\* in the budget loop or in a retry
VictimUnmapped(pl, i) ==
    \/ \A b \in Buckets : << VictimParent(pl, i), b >> \notin pl.links_before
    \/ VictimParent(pl, i) \in SeqToSet(pl.evicted)
    \/ \E h \in 1 .. i - 1 : VictimParent(pl, h) = VictimParent(pl, i)

\* C31: a put with a step failing with ENOSPC deletes, at each failure, the
\* bucket at the tail of the used list and has its map entry removed, then
\* tries the step again: a put that succeeds has deleted one bucket for each
\* failure, a put deletes no more buckets than are in use, and it returns an
\* error when it can delete no more or when the delete handler fails, which
\* it does for a bucket whose parent names no map entry.  A step failing
\* with another error makes put return an error with nothing deleted.
C31_EnospcEvictsAndRetries ==
    last.op = "fetch_failing" =>
        \A k \in 1 .. Len(last.puts) :
            LET pl == last.puts[k]
                n == Len(pl.lru)
                m == Len(pl.evicted)
                r == Len(pl.retry_evicted)
            IN  /\ last.fault.errno # "ENOSPC" => (~pl.ok /\ r = 0)
                /\ last.fault.errno = "ENOSPC" =>
                      /\ pl.ok => r = last.fault.times
                      /\ ~pl.ok =>
                            \/ r < last.fault.times
                            \/ r >= 1 /\ VictimUnmapped(pl, r)
                      /\ r <= (n - m) + 1
                      /\ \A i \in 1 .. r :
                            (/\ pl.retry_evicted[i] \in SeqToSet(LruBuckets(pl))
                             /\ ~OwnDeletion(pl, i)) =>
                               /\ i <= n - m
                               /\ pl.retry_evicted[i] = pl.lru[n - m - i + 1].bucket
                               /\ << Unwrap(pl.lru[n - m - i + 1].parent),
                                     pl.retry_evicted[i] >> \notin pl.links_after

\* two buckets in use, ENOSPC twice when the data is written: both buckets
\* are deleted, oldest first, and the put succeeds at the third attempt
C31_Witness ==
    /\ last.op = "fetch_failing" /\ last.ok
    /\ last.fault = [step |-> "write", errno |-> "ENOSPC", times |-> 2]
    /\ Len(last.puts) = 1
    /\ last.puts[1].ok
    /\ Len(last.puts[1].lru) = 2
    /\ last.puts[1].retry_evicted
         = << last.puts[1].lru[2].bucket, last.puts[1].lru[1].bucket >>

\* C32: when put_block replaces the entry of a mapped block, a get_block
\* made while the replacement is under way returns the old bucket or the
\* new one, and so does the directory when the process has died inside the
\* replacement: the entry is never absent.
C32_ReplaceIsAtomic ==
    /\ (/\ last.op = "get_block" /\ InPutBlock
        /\ pc[1].entry = << last.path, last.offset >> /\ IsSome(pc[1].old))
       => last.freed \in { pc[1].old, Some(pc[1].bucket) }
    /\ (last.op = "crash" /\ IsSome(Unwrap(last.before)))
       => c.links[<< last.path, last.offset >>] \in { Unwrap(last.before), last.freed }

\* C33: a walk of the map below a path that has listed the links, one of
\* which another thread then removes, skips the missing link: it hands the
\* other links to the handler and returns without error, and does not panic.
C33_WalkSkipsRemovedEntry ==
    \A p \in Paths :
        \A e \in blocks_under_path(c, p) :
            \A ord \in Orders(blocks_under_path(c, p)) :
                for_each_block_under_path([c EXCEPT !.links[e] = None], p, ord).ok


\* C34: an init over a directory in which exactly one of the two anchors of
\* a list is present, or in which the head anchor names a bucket that has a
\* prev link, returns an error.
TornAnchors ==
    { [c EXCEPT !.base[ll.head_link] = None] :
          ll \in { l \in { used_list, free_list } : IsSome(c.base[l.tail_link]) } }
    \cup { [c EXCEPT !.base[ll.tail_link] = None] :
          ll \in { l \in { used_list, free_list } : IsSome(c.base[l.head_link]) } }
    \cup { [c EXCEPT !.base[ll.head_link] = c.base[ll.tail_link]] :
          ll \in { l \in { used_list, free_list } :
                       /\ IsSome(c.base[l.tail_link])
                       /\ IsSome(c.prev[Unwrap(c.base[l.tail_link])]) } }

C34_InitReportsTornAnchors ==
    \A torn \in TornAnchors : ~init(new(torn, c.bucket_size, c.max_bytes)).ok


\* C35: after a put that has taken a bucket and then returned an error,
\* every bucket on the used list has a parent link and a data file, and a
\* delete_something on a non-empty used list succeeds.
C35_FailedPutLeavesNoBareBucket ==
    (/\ last.op = "fetch_failing"
     /\ \E k \in 1 .. Len(last.puts) :
           ~last.puts[k].ok /\ IsSome(last.puts[k].taken))
    => /\ \A b \in UsedSet(c) : IsSome(c.parent[b]) /\ IsSome(c.data[b])
       /\ ~is_empty(c, used_list) => delete_something(c).ok


\* C36: a free_bucket of a bucket in use that returns an error at one of its
\* steps leaves used_bytes equal to the sum of the lengths of the data files
\* that exist, and leaves the bucket on one list or on none.
FreeBucketSteps == { "disconnect", "insert_as_tail", "remove_data", "remove_parent" }

C36_FailedFreeKeepsAccounting ==
    c.used_bytes = compute_cache_used_size(c) =>
        \A b \in UsedSet(c), step \in FreeBucketSteps :
            LET r == free_bucket([c EXCEPT !.io_fault = step, !.io_errno = "EIO",
                                           !.io_left = 1], b)
            IN  ~r.ok =>
                   /\ r.c.used_bytes = compute_cache_used_size(r.c)
                   /\ ~(b \in UsedSet(r.c) /\ b \in FreeSet(r.c))


\* C37: freeing a bucket in use, and deleting the used-list tail and telling
\* the delete handler, leave every map entry that targets another bucket in
\* place.
OtherEntriesKept(before, after, b) ==
    \A e \in Entries :
        (IsSome(before.links[e]) /\ before.links[e] # Some(b))
            => after.links[e] = before.links[e]

C37_EvictionKeepsOtherEntries ==
    /\ \A b \in UsedSet(c) : OtherEntriesKept(c, FSCache_free_bucket(c, b).c, b)
    /\ IsSome(get_tail(c, used_list)) =>
          LET d == delete_something(c)
          IN  d.ok => OtherEntriesKept(c, delete_handler(d.c, d.parent).c,
                                       Unwrap(get_tail(c, used_list)))


\* C38: a fetch of size 0 at any offset, in a build with or without overflow
\* checks, returns no bytes and no error and neither reads nor caches a
\* block.
EmptyFetch(p, offset, checks) ==
    { FSCache_fetch([c EXCEPT !.overflow_checks = checks], p, offset, 0, Content(p),
                    backing[p].mtime, ord) :
          ord \in (IF cached_mtime(c, p) # Some(backing[p].mtime)
                   THEN Orders(walk_entries(c, p)) ELSE { << >> }) }

C38_EmptyFetchReadsNothing ==
    \A p \in Paths, offset \in 0 .. MaxFileLen, checks \in BOOLEAN :
        \A r \in EmptyFetch(p, offset, checks) :
            (cached_mtime(c, p) = Some(backing[p].mtime) \/ r.fresh = "NotPresent")
                => /\ r.outcome = "ok"
                   /\ r.bytes = << >>
                   /\ r.puts = << >>
                   /\ r.gets = << >>


\* C39: the retries of a put whose step fails with ENOSPC never delete the
\* bucket the put has taken, and a put that succeeds leaves that bucket on
\* the used list with its parent and its data.
C39_RetryKeepsTakenBucket ==
    last.op = "fetch_failing" =>
        \A k \in 1 .. Len(last.puts) :
            LET pl == last.puts[k]
            IN  IsSome(pl.taken) =>
                   /\ \A i \in 1 .. Len(pl.retry_evicted) : ~OwnDeletion(pl, i)
                   /\ (pl.ok /\ k = Len(last.puts)) =>
                         /\ Unwrap(pl.taken) \in UsedSet(c)
                         /\ Unwrap(pl.taken) \notin FreeSet(c)


====
